---------------------------- MODULE Spec2Model ----------------------------
(***************************************************************************)
(* Model of the voice-recorder pipeline: the analysis retry loop           *)
(* (docs/REFACTOR_PLAN.md, OllamaService::analyze_text), the relational    *)
(* schema (scripts/setup_refactor.sh, migrations/001_initial_schema.sql)   *)
(* with the repository operations on it, the quick-record control of the   *)
(* Home page (web/src/pages, web/src/services/api.ts) and the Recorder     *)
(* component of its recording modal.                                       *)
(***************************************************************************)
EXTENDS Integers, Sequences, FiniteSets, Bags, TLC

VARIABLES
    \* ---- OllamaService::analyze_text ----
    an_pc,        \* position of the call: "idle", "call", "sleep", "done", "panic";
                  \* "aborted" once its future has been dropped
    text,         \* the transcript text handed to analyze_text
    prompt,       \* the prompt selected for the detected language
    attempts,     \* the attempts counter of the retry loop
    calls,        \* number of send_request invocations of the current call
    sleeps,       \* durations (seconds) of the sleeps of the current call, in order
    errlog,       \* the error of every failed send_request of the current call, in order
    result        \* what analyze_text returned

anVars == <<an_pc, text, prompt, attempts, calls, sleeps, errlog, result>>

VARIABLES
    \* ---- the tables of migrations/001_initial_schema.sql (committed rows) ----
    sessions, audio_files, transcripts, analysis_results, ideas, tasks,
    structured_notes,
    \* ---- the repository layer ----
    tx,           \* per writer: the open saveAnalysis transaction and its staged rows
    nextAid,      \* analysis ids handed out so far (stands for fresh UUIDs)
    nextTid,      \* transcript ids handed out so far
    lastSaved,    \* history: session id -> the result of its last committed saveAnalysis
    lastOp        \* history: the repository operation that ended last

tableVars == <<sessions, audio_files, transcripts, analysis_results, ideas, tasks,
               structured_notes>>
repoVars == <<tableVars, tx, nextAid, nextTid, lastSaved, lastOp>>

VARIABLES
    \* ---- Home page, one per client (browser) ----
    isRecording,             \* Home.isRecording
    quickRecordingSession,   \* Home.quickRecordingSession ("null" or the id)
    isUploading,             \* Home.isUploading
    error,                   \* Home.error ("null" or which message is shown)
    loading,                 \* Home.loading
    shown,                   \* Home.sessions: the ids of the sessions listed
    \* ---- requests and responses in flight between the clients and the backend ----
    net,
    \* ---- the backend's capture controller ----
    capture                  \* per started recording, in start order: its state

homeVars == <<isRecording, quickRecordingSession, isUploading, error, loading, shown>>
recVars == <<homeVars, net, capture>>

VARIABLES
    \* ---- Recorder component (components/Recorder), mounted in the Home page's
    \* ---- recording modal, one per client ----
    recordingState,          \* Recorder.recordingState ("undefined" until set)
    audioBlob,               \* Recorder.audioBlob: "null", "empty" (size 0) or "audio"
    recorderIsUploading,     \* Recorder.isUploading
    isStoppingRecording,     \* Recorder.isStoppingRecording
    recorderError,           \* Recorder.error ("null" or which message is shown)
    mediaRecorder,           \* mediaRecorderRef.current: "null", "recording", "inactive"
    recordingSessionRef,     \* recordingSessionRef.current ("null" or the id)
    intervalRef,             \* the duration timer is running
    micLive,                 \* the tracks of the getUserMedia stream are live
    orphanTimers,            \* duration timers started by handlers of Recorders
                             \* that were unmounted by then
    \* ---- the backend's upload endpoint ----
    nextUpload               \* sessions created by POST /sessions/upload

recorderVars == <<recordingState, audioBlob, recorderIsUploading, isStoppingRecording,
                  recorderError, mediaRecorder, recordingSessionRef, intervalRef, micLive,
                  orphanTimers>>

VARIABLES
    \* ---- Detail page (pages/Detail) ----
    routeId,                 \* the :id of the route /detail/:id, 0 on another route
    detailSession,           \* Detail.session: the id of the session held, 0 for null
    detailLoading,           \* Detail.loading
    detailError,             \* Detail.error ("null" or which message is shown)
    \* ---- the functions of utils/ and of the Tasks page, applied to a value ----
    utilArg,                 \* the argument
    utilRet                  \* what the function returned ("none" before the call)

pagesVars == <<routeId, detailSession, detailLoading, detailError, utilArg, utilRet>>

vars == <<anVars, repoVars, recVars, recorderVars, nextUpload, pagesVars>>

\* what the actions of one part leave alone
exceptAn == <<repoVars, recVars, recorderVars, nextUpload, pagesVars>>
exceptRepo == <<anVars, recVars, recorderVars, nextUpload, pagesVars>>
exceptRec == <<anVars, repoVars, recorderVars, nextUpload, pagesVars>>
exceptFront == <<anVars, repoVars, nextUpload, pagesVars>>

-----------------------------------------------------------------------------
(* Bounds *)

MaxTextLen == 2

MaxSessions == 2        \* session ids in use
MaxSaves == 2           \* saveAnalysis calls begun in one run
MaxTranscripts == 2     \* transcript rows inserted in one run
MaxStamp == 1           \* clock readings 0..MaxStamp
MaxLangLen == 11        \* characters of a transcript given to the language detector
MaxClients == 2         \* browsers with the Home page open
MaxPending == 1         \* start requests of one client in flight
MaxPresses == 2         \* the same, where one Home page is taken alone
MaxLoads == 2           \* loads of the Detail page in flight
MaxRecordings == 2      \* recordings started in one run
MaxRecorders == 1       \* clients that use the recording modal
MaxUploads == 2         \* sessions created from uploaded audio in one run

-----------------------------------------------------------------------------
(* Transcript texts: sequences over three character classes. *)

Chars == {"sp", "lat", "cjk"}

Texts == UNION {[1..n -> Chars] : n \in 0..MaxTextLen}

\* the transcripts given to the language detector alone
LangTexts == UNION {[1..n -> Chars] : n \in 0..MaxLangLen}

\* a text that is empty or holds only whitespace
IsBlank(t) == \A i \in 1..Len(t) : t[i] = "sp"

RECURSIVE CountCjk(_)
CountCjk(t) ==
    IF t = <<>> THEN 0
    ELSE (IF Head(t) = "cjk" THEN 1 ELSE 0) + CountCjk(Tail(t))

RECURSIVE CountNonSpace(_)
CountNonSpace(t) ==
    IF t = <<>> THEN 0
    ELSE (IF Head(t) # "sp" THEN 1 ELSE 0) + CountNonSpace(Tail(t))

\* "if Chinese characters make up more than 30%, use the Chinese prompt": the
\* share is taken of the characters that are not whitespace
detect_language_Inclusive(t) ==
    IF CountCjk(t) * 100 >= 30 * CountNonSpace(t) THEN "Chinese" ELSE "English"
detect_language(t) ==
    IF CountCjk(t) * 100 > 30 * CountNonSpace(t) THEN "Chinese" ELSE "English"

get_prompt_for_language(language) ==
    IF language = "Chinese" THEN "chinese_prompt" ELSE "english_prompt"

-----------------------------------------------------------------------------
(* Provider outcomes *)

Causes == {"network", "malformed", "transient"}

EmptyResult ==
    [title |-> "", summary |-> "", ideas |-> <<>>, tasks |-> <<>>,
     structured_notes |-> <<>>]

\* wire shape: tasks[]{title, priority}, structured_notes[]{title, tags[], note_type}
SomeResult ==
    [title |-> "A", summary |-> "sa", ideas |-> <<"x", "y">>,
     tasks |-> << [title |-> "t1", priority |-> "High"] >>,
     structured_notes |-> << [title |-> "n1", tags |-> <<"q", "p">>,
                              note_type |-> "Meeting"] >>]

OtherResult ==
    [title |-> "B", summary |-> "sb", ideas |-> <<"y">>,
     tasks |-> << [title |-> "t3", priority |-> "Urgent"],
                  [title |-> "t2", priority |-> "Low"] >>,
     structured_notes |-> <<>>]

ProviderResults == {EmptyResult, SomeResult}

NoValue == [none |-> TRUE]

Ok(r)  == [kind |-> "Ok",  value |-> r,       cause |-> "none"]
Err(e) == [kind |-> "Err", value |-> NoValue, cause |-> e]
Pending == [kind |-> "Pending", value |-> NoValue, cause |-> "none"]

-----------------------------------------------------------------------------
(* OllamaService::analyze_text *)

max_attempts == 3

\* `Err(e) if attempts < max_attempts - 1`
CanRetry_NoMinusOne(a) == a < max_attempts
CanRetry(a) == a < max_attempts - 1

\* `Duration::from_secs(2_u64.pow(attempts))`
Backoff(a) == 2 ^ a

\* `Err(e) => return Err(e)`: e is the error of the send_request just made,
\* which is the last entry of the log
ReturnedError_First(log) == log[1]
ReturnedError(log) == log[Len(log)]

\* the `while attempts < max_attempts` test; leaving the loop reaches unreachable!()
LoopEntry(a) == IF a < max_attempts THEN "call" ELSE "panic"

InitAn ==
    /\ an_pc = "idle"
    /\ text = <<>>
    /\ prompt = "none"
    /\ attempts = 0
    /\ calls = 0
    /\ sleeps = <<>>
    /\ errlog = <<>>
    /\ result = Pending

\* analyze_text(text): detect the language, pick the prompt, enter the loop
AnalyzeStart(t) ==
    /\ an_pc = "idle"
    /\ text' = t
    /\ prompt' = get_prompt_for_language(detect_language(t))
    /\ attempts' = 0
    /\ calls' = 0
    /\ sleeps' = <<>>
    /\ errlog' = <<>>
    /\ result' = Pending
    /\ an_pc' = LoopEntry(0)
    /\ UNCHANGED exceptAn

\* send_request answers Ok(result): return Ok(result)
SendRequestOk(r) ==
    /\ an_pc = "call"
    /\ calls' = calls + 1
    /\ result' = Ok(r)
    /\ an_pc' = "done"
    /\ UNCHANGED <<text, prompt, attempts, sleeps, errlog>>
    /\ UNCHANGED exceptAn

\* send_request answers Err(e): retry after a sleep, or return the error
SendRequestErr(e) ==
    /\ an_pc = "call"
    /\ calls' = calls + 1
    /\ errlog' = Append(errlog, e)
    /\ IF CanRetry(attempts)
       THEN /\ attempts' = attempts + 1
            /\ sleeps' = Append(sleeps, Backoff(attempts + 1))
            /\ an_pc' = "sleep"
            /\ UNCHANGED result
       ELSE /\ result' = Err(ReturnedError(Append(errlog, e)))
            /\ an_pc' = "done"
            /\ UNCHANGED <<attempts, sleeps>>
    /\ UNCHANGED <<text, prompt>>
    /\ UNCHANGED exceptAn

\* the sleep ends: back to the loop test
SleepDone ==
    /\ an_pc = "sleep"
    /\ an_pc' = LoopEntry(attempts)
    /\ UNCHANGED <<text, prompt, attempts, calls, sleeps, errlog, result>>
    /\ UNCHANGED exceptAn

\* the caller has taken the result; the service is ready for the next call
AnalyzeReturn ==
    /\ an_pc = "done"
    /\ an_pc' = "idle"
    /\ UNCHANGED <<text, prompt, attempts, calls, sleeps, errlog, result>>
    /\ UNCHANGED exceptAn

NextAn ==
    \/ \E t \in Texts : AnalyzeStart(t)
    \/ \E r \in ProviderResults : SendRequestOk(r)
    \/ \E e \in Causes : SendRequestErr(e)
    \/ SleepDone
    \/ AnalyzeReturn

-----------------------------------------------------------------------------
(* The schema: migrations/001_initial_schema.sql.  A table is a set of rows; *)
(* no table has a column that holds a row's position in its parent's list.   *)

SessionIds == 1..MaxSessions

Stamps == 0..MaxStamp

Ids(tbl) == {row.id : row \in tbl}

\* `REFERENCES sessions(id)` / `REFERENCES analysis_results(id)`: an insert is
\* accepted only when the referenced parent row exists
FkHolds_Unchecked(parentIds, ref) == TRUE
FkHolds(parentIds, ref) == ref \in parentIds

\* audio_files.session_id ... ON DELETE CASCADE
CascadeAudioFiles_NoWhere(tbl, sids) == IF sids = {} THEN tbl ELSE {}
CascadeAudioFiles(tbl, sids) == {row \in tbl : row.session_id \notin sids}

\* transcripts.session_id ... ON DELETE CASCADE
CascadeTranscripts(tbl, sids) == {row \in tbl : row.session_id \notin sids}

\* analysis_results.session_id ... ON DELETE CASCADE
CascadeAnalysisResults(tbl, sids) == {row \in tbl : row.session_id \notin sids}

\* ideas.analysis_id ... ON DELETE CASCADE
CascadeIdeas_Restrict(tbl, aids) == tbl
CascadeIdeas(tbl, aids) == {row \in tbl : row.analysis_id \notin aids}

\* tasks.analysis_id ... ON DELETE CASCADE
CascadeTasks_Restrict(tbl, aids) == tbl
CascadeTasks(tbl, aids) == {row \in tbl : row.analysis_id \notin aids}

\* structured_notes.analysis_id ... ON DELETE CASCADE
CascadeStructuredNotes(tbl, aids) == {row \in tbl : row.analysis_id \notin aids}

\* the rows of a session
RowsOfSession(tbl, sid) == {row \in tbl : row.session_id = sid}
ChildrenOf(tbl, aids) == {row \in tbl : row.analysis_id \in aids}

-----------------------------------------------------------------------------
(* Rows written for an AnalysisResult r under analysis id aid.  created_at   *)
(* is the clock reading taken for the row: st[k] for the k-th row.           *)

AnalysisRow(aid, sid, r) ==
    [id |-> aid, session_id |-> sid, title |-> r.title, summary |-> r.summary]

IdeaRows(aid, r, st) ==
    {[id |-> <<aid, k>>, analysis_id |-> aid, content |-> r.ideas[k],
      created_at |-> st[k]] : k \in 1..Len(r.ideas)}

TaskRows(aid, r, st) ==
    {[id |-> <<aid, k>>, analysis_id |-> aid, title |-> r.tasks[k].title,
      priority |-> r.tasks[k].priority, created_at |-> st[k]] : k \in 1..Len(r.tasks)}

NoteRows(aid, r, st) ==
    {[id |-> <<aid, k>>, analysis_id |-> aid, title |-> r.structured_notes[k].title,
      tags |-> r.structured_notes[k].tags,
      note_type |-> r.structured_notes[k].note_type,
      created_at |-> st[k]] : k \in 1..Len(r.structured_notes)}

\* successive clock readings, counted from the reading taken for the first row:
\* never decreasing, possibly equal
AllStampSeqs == UNION {[1..n -> Stamps] : n \in 0..2}
StampSeqs(n) ==
    {st \in [1..n -> Stamps] :
        /\ n > 0 => st[1] = 0
        /\ \A i, j \in 1..n : i < j => st[i] <= st[j]}

-----------------------------------------------------------------------------
(* Reading a session back *)

RECURSIVE Perms(_)
Perms(S) ==
    IF S = {} THEN {<<>>}
    ELSE UNION {{<<x>> \o p : p \in Perms(S \ {x})} : x \in S}

\* the rows of a parent in the order of their created_at; rows with equal
\* created_at come in either order (their ids are random UUIDs)
OrderedReads(rows) ==
    {p \in Perms(rows) :
        \A i, j \in 1..Len(p) : i < j => p[i].created_at <= p[j].created_at}

AnalysisValue(a, p, q, n) ==
    [title |-> a.title, summary |-> a.summary,
     ideas |-> [k \in 1..Len(p) |-> p[k].content],
     tasks |-> [k \in 1..Len(q) |-> [title |-> q[k].title, priority |-> q[k].priority]],
     structured_notes |->
        [k \in 1..Len(n) |-> [title |-> n[k].title, tags |-> n[k].tags,
                              note_type |-> n[k].note_type]]]

\* every value findSession(sid).analysis can take in the current state
ReadAnalyses(sid) ==
    UNION {{AnalysisValue(a, p, q, n) :
              p \in OrderedReads(ChildrenOf(ideas, {a.id})),
              q \in OrderedReads(ChildrenOf(tasks, {a.id})),
              n \in OrderedReads(ChildrenOf(structured_notes, {a.id}))} :
           a \in RowsOfSession(analysis_results, sid)}

-----------------------------------------------------------------------------
(* Repository operations *)

Writers == {"w1", "w2"}

AnalysisInputs == {SomeResult, OtherResult}

NoTx ==
    [step |-> "none", sid |-> 0, aid |-> 0, r |-> EmptyResult, del |-> {},
     a_rows |-> {}, i_rows |-> {}, t_rows |-> {}, n_rows |-> {}]

NoOp ==
    [op |-> "none", sid |-> 0, ok |-> TRUE, step |-> "none", aid |-> 0,
     had |-> FALSE, read |-> NoValue, expect |-> NoValue]

InitRepo ==
    /\ sessions = {}
    /\ audio_files = {}
    /\ transcripts = {}
    /\ analysis_results = {}
    /\ ideas = {}
    /\ tasks = {}
    /\ structured_notes = {}
    /\ tx = [w \in Writers |-> NoTx]
    /\ nextAid = 0
    /\ nextTid = 0
    /\ lastSaved = [s \in SessionIds |-> NoValue]
    /\ lastOp = NoOp

\* writers to one session are serialized: a session is free for writer w when
\* no other writer has a transaction open on it
SessionFree_NoLock(sid, w) == TRUE
SessionFree(sid, w) == \A o \in Writers \ {w} : tx[o].step = "none" \/ tx[o].sid # sid

\* what a rolled-back transaction leaves of a table: the committed rows only
AfterRollback_KeepsStaged(tbl, staged) == tbl \cup staged
AfterRollback(tbl, staged) == tbl

\* startSession/stopSession end: the Session row and its one AudioFile row
CreateSession(sid) ==
    /\ sid \notin Ids(sessions)
    /\ SessionFree(sid, "none")
    /\ sessions' = sessions \cup {[id |-> sid]}
    /\ audio_files' = audio_files \cup {[id |-> sid, session_id |-> sid]}
    /\ lastSaved' = [lastSaved EXCEPT ![sid] = NoValue]
    /\ lastOp' = [NoOp EXCEPT !.op = "createSession", !.sid = sid]
    /\ UNCHANGED <<transcripts, analysis_results, ideas, tasks, structured_notes,
                   tx, nextAid, nextTid>>
    /\ UNCHANGED exceptRepo

\* a Transcript row is inserted for session sid (a new record each time)
SaveTranscript(sid) ==
    /\ nextTid < MaxTranscripts
    /\ nextTid' = nextTid + 1
    /\ IF FkHolds(Ids(sessions), sid)
       THEN /\ transcripts' = transcripts \cup {[id |-> nextTid + 1, session_id |-> sid]}
            /\ lastOp' = [NoOp EXCEPT !.op = "saveTranscript", !.sid = sid]
       ELSE /\ UNCHANGED transcripts
            /\ lastOp' = [NoOp EXCEPT !.op = "saveTranscript", !.sid = sid, !.ok = FALSE]
    /\ UNCHANGED <<sessions, audio_files, analysis_results, ideas, tasks,
                   structured_notes, tx, nextAid, lastSaved>>
    /\ UNCHANGED exceptRepo

\* saveAnalysis(sid, r): the transaction opens, takes a fresh analysis id, deletes
\* the session's previous AnalysisResult and inserts the new row; a session that
\* does not exist fails the foreign key and the transaction is rolled back
SaveBegin(w, sid, r) ==
    /\ tx[w].step = "none"
    /\ nextAid < MaxSaves
    /\ SessionFree(sid, w)
    /\ nextAid' = nextAid + 1
    /\ IF FkHolds(Ids(sessions), sid)
       THEN /\ tx' = [tx EXCEPT ![w] =
                        [NoTx EXCEPT !.step = "analysis", !.sid = sid,
                                     !.aid = nextAid + 1, !.r = r,
                                     !.del = Ids(RowsOfSession(analysis_results, sid)),
                                     !.a_rows = {AnalysisRow(nextAid + 1, sid, r)}]]
            /\ UNCHANGED lastOp
       ELSE /\ UNCHANGED tx
            /\ lastOp' = [NoOp EXCEPT !.op = "saveAnalysis", !.sid = sid, !.ok = FALSE,
                                      !.step = "analysis", !.aid = nextAid + 1]
    /\ UNCHANGED <<tableVars, nextTid, lastSaved>>
    /\ UNCHANGED exceptRepo

\* a failure or crash at any point of an open transaction: it ends without
\* commit and nothing it staged is kept
SaveFail(w) ==
    /\ tx[w].step # "none"
    /\ analysis_results' = AfterRollback(analysis_results, tx[w].a_rows)
    /\ ideas' = AfterRollback(ideas, tx[w].i_rows)
    /\ tasks' = AfterRollback(tasks, tx[w].t_rows)
    /\ structured_notes' = AfterRollback(structured_notes, tx[w].n_rows)
    /\ tx' = [tx EXCEPT ![w] = NoTx]
    /\ lastOp' = [NoOp EXCEPT !.op = "saveAnalysis", !.sid = tx[w].sid, !.ok = FALSE,
                              !.step = tx[w].step, !.aid = tx[w].aid]
    /\ UNCHANGED <<sessions, audio_files, transcripts, nextAid, nextTid, lastSaved>>
    /\ UNCHANGED exceptRepo

SaveInsertIdeas(w, st) ==
    /\ tx[w].step = "analysis"
    /\ st \in StampSeqs(Len(tx[w].r.ideas))
    /\ tx' = [tx EXCEPT ![w].step = "ideas",
                        ![w].i_rows = IdeaRows(tx[w].aid, tx[w].r, st)]
    /\ UNCHANGED <<tableVars, nextAid, nextTid, lastSaved, lastOp>>
    /\ UNCHANGED exceptRepo

SaveInsertTasks(w, st) ==
    /\ tx[w].step = "ideas"
    /\ st \in StampSeqs(Len(tx[w].r.tasks))
    /\ tx' = [tx EXCEPT ![w].step = "tasks",
                        ![w].t_rows = TaskRows(tx[w].aid, tx[w].r, st)]
    /\ UNCHANGED <<tableVars, nextAid, nextTid, lastSaved, lastOp>>
    /\ UNCHANGED exceptRepo

SaveInsertNotes(w, st) ==
    /\ tx[w].step = "tasks"
    /\ st \in StampSeqs(Len(tx[w].r.structured_notes))
    /\ tx' = [tx EXCEPT ![w].step = "notes",
                        ![w].n_rows = NoteRows(tx[w].aid, tx[w].r, st)]
    /\ UNCHANGED <<tableVars, nextAid, nextTid, lastSaved, lastOp>>
    /\ UNCHANGED exceptRepo

\* commit: the deletes (with their cascades) and the inserts become visible at once
SaveCommit(w) ==
    /\ tx[w].step = "notes"
    /\ analysis_results' =
          (analysis_results \ {a \in analysis_results : a.id \in tx[w].del})
              \cup tx[w].a_rows
    /\ ideas' = CascadeIdeas(ideas, tx[w].del) \cup tx[w].i_rows
    /\ tasks' = CascadeTasks(tasks, tx[w].del) \cup tx[w].t_rows
    /\ structured_notes' =
          CascadeStructuredNotes(structured_notes, tx[w].del) \cup tx[w].n_rows
    /\ tx' = [tx EXCEPT ![w] = NoTx]
    /\ lastSaved' = [lastSaved EXCEPT ![tx[w].sid] = tx[w].r]
    /\ lastOp' = [NoOp EXCEPT !.op = "saveAnalysis", !.sid = tx[w].sid,
                              !.step = "commit", !.aid = tx[w].aid,
                              !.had = tx[w].del # {}]
    /\ UNCHANGED <<sessions, audio_files, transcripts, nextAid, nextTid>>
    /\ UNCHANGED exceptRepo

\* DELETE FROM sessions WHERE id = sid, with the cascades of the schema
DeleteRows(sid) ==
    /\ SessionFree(sid, "none")
    /\ IF sid \in Ids(sessions)
       THEN LET gone == Ids(RowsOfSession(analysis_results, sid))
            IN  /\ sessions' = {row \in sessions : row.id # sid}
                /\ audio_files' = CascadeAudioFiles(audio_files, {sid})
                /\ transcripts' = CascadeTranscripts(transcripts, {sid})
                /\ analysis_results' = CascadeAnalysisResults(analysis_results, {sid})
                /\ ideas' = CascadeIdeas(ideas, gone)
                /\ tasks' = CascadeTasks(tasks, gone)
                /\ structured_notes' = CascadeStructuredNotes(structured_notes, gone)
                /\ lastSaved' = [lastSaved EXCEPT ![sid] = NoValue]
                /\ lastOp' = [NoOp EXCEPT !.op = "deleteSession", !.sid = sid,
                                !.had = /\ ChildrenOf(ideas, gone) # {}
                                        /\ ChildrenOf(tasks, gone) # {}
                                        /\ ChildrenOf(structured_notes, gone) # {}
                                        /\ RowsOfSession(transcripts, sid) # {}
                                        /\ RowsOfSession(audio_files, sid) # {}]
       ELSE /\ lastOp' = [NoOp EXCEPT !.op = "deleteSession", !.sid = sid, !.ok = FALSE]
            /\ UNCHANGED <<tableVars, lastSaved>>
    /\ UNCHANGED <<tx, nextAid, nextTid>>

\* deleteSession(sid)
DeleteSession(sid) ==
    /\ DeleteRows(sid)
    /\ UNCHANGED exceptRepo

\* findSession(sid): the committed rows of the session, read back as an AnalysisResult
FindSession(sid) ==
    /\ sid \in Ids(sessions)
    /\ \/ /\ RowsOfSession(analysis_results, sid) = {}
          /\ lastOp' = [NoOp EXCEPT !.op = "findSession", !.sid = sid,
                                    !.expect = lastSaved[sid]]
       \/ \E v \in ReadAnalyses(sid) :
             lastOp' = [NoOp EXCEPT !.op = "findSession", !.sid = sid, !.read = v,
                                    !.expect = lastSaved[sid]]
    /\ UNCHANGED <<tableVars, tx, nextAid, nextTid, lastSaved>>
    /\ UNCHANGED exceptRepo

NextRepo ==
    \/ \E sid \in SessionIds : CreateSession(sid)
    \/ \E sid \in SessionIds : SaveTranscript(sid)
    \/ \E w \in Writers, sid \in SessionIds, r \in AnalysisInputs : SaveBegin(w, sid, r)
    \/ \E w \in Writers, st \in AllStampSeqs : SaveInsertIdeas(w, st)
    \/ \E w \in Writers, st \in AllStampSeqs : SaveInsertTasks(w, st)
    \/ \E w \in Writers, st \in AllStampSeqs : SaveInsertNotes(w, st)
    \/ \E w \in Writers : SaveCommit(w)
    \/ \E w \in Writers : SaveFail(w)
    \/ \E sid \in SessionIds : DeleteSession(sid)
    \/ \E sid \in SessionIds : FindSession(sid)

-----------------------------------------------------------------------------
(* Quick record: the Home page (pages/Home), services/api.ts and the backend *)

Clients == 1..MaxClients

Req(k, c) == [to |-> "srv", kind |-> k, c |-> c, status |-> "none", data |-> {}]
Resp(k, c, st, d) == [to |-> "cli", kind |-> k, c |-> c, status |-> st, data |-> d]

LoadKinds == {"load_mount", "load_stop"}
Statuses == {"ok", "CaptureError", "ServerError", "NetworkError"}

\* the callers of api.startRecording and api.stopRecording: the Home page's quick
\* record, a Recorder, a Recorder that has been unmounted since
StartKinds == {"start", "rec_start", "orphan_start"}
StopKinds == {"stop", "rec_stop", "orphan_stop"}
UploadKinds == {"rec_upload", "orphan_upload"}

Send(m) == net (+) SetToBag({m})
Reply(m, a) == (net (-) SetToBag({m})) (+) SetToBag({a})

Recording == {k \in DOMAIN capture : capture[k] = "Recording"}

\* ids of the sessions written by stopSession (1..MaxRecordings) and by the upload
\* endpoint (after them)
AllSessionIds == 1..(MaxRecordings + MaxUploads)

\* the Recorder is rendered while the recording modal is open:
\* `{isRecording && !quickRecordingSession && ( ... <Recorder onUpload={handleUpload} />`
Mounted(c) == isRecording[c] /\ quickRecordingSession[c] = "null"

\* requests of a Recorder, and what they are once that Recorder is unmounted:
\* the handler that awaits them runs on, its state updates are lost
RecorderKinds == {"rec_start", "rec_stop", "rec_upload"}
OrphanKinds == {"orphan_start", "orphan_stop", "orphan_upload"}
OrphanKind(k) ==
    CASE k = "rec_start" -> "orphan_start"
      [] k = "rec_stop" -> "orphan_stop"
      [] k = "rec_upload" -> "orphan_upload"
      [] OTHER -> k
OrphanMsg(m, c) == IF m.c = c THEN [m EXCEPT !.kind = OrphanKind(m.kind)] ELSE m
Orphaned(b, c) == BagOfAll(LAMBDA m : OrphanMsg(m, c), b)

\* the Recorder of client c is unmounted: its state is gone (the next one is
\* constructed anew), the cleanup of its effect clears the timer and nothing else;
\* a MediaRecorder left recording keeps the microphone
RecorderUnmount(c) ==
    /\ recordingState' = [recordingState EXCEPT ![c] = "undefined"]
    /\ audioBlob' = [audioBlob EXCEPT ![c] = "null"]
    /\ recorderIsUploading' = [recorderIsUploading EXCEPT ![c] = FALSE]
    /\ isStoppingRecording' = [isStoppingRecording EXCEPT ![c] = FALSE]
    /\ recorderError' = [recorderError EXCEPT ![c] = "null"]
    /\ mediaRecorder' = [mediaRecorder EXCEPT ![c] = "null"]
    /\ recordingSessionRef' = [recordingSessionRef EXCEPT ![c] = "null"]
    /\ intervalRef' = [intervalRef EXCEPT ![c] = FALSE]
    /\ UNCHANGED <<micLive, orphanTimers>>

InitRec ==
    /\ isRecording = [c \in Clients |-> FALSE]
    /\ quickRecordingSession = [c \in Clients |-> "null"]
    /\ isUploading = [c \in Clients |-> FALSE]
    /\ error = [c \in Clients |-> "null"]
    /\ loading = [c \in Clients |-> TRUE]
    /\ shown = [c \in Clients |-> {}]
    /\ net = SetToBag({Req("load_mount", c) : c \in Clients})
    /\ capture = <<>>
    /\ recordingState = [c \in Clients |-> "undefined"]
    /\ audioBlob = [c \in Clients |-> "null"]
    /\ recorderIsUploading = [c \in Clients |-> FALSE]
    /\ isStoppingRecording = [c \in Clients |-> FALSE]
    /\ recorderError = [c \in Clients |-> "null"]
    /\ mediaRecorder = [c \in Clients |-> "null"]
    /\ recordingSessionRef = [c \in Clients |-> "null"]
    /\ intervalRef = [c \in Clients |-> FALSE]
    /\ micLive = [c \in Clients |-> FALSE]
    /\ orphanTimers = [c \in Clients |-> 0]
    /\ nextUpload = 0

\* the quick record button: `disabled={isUploading || (isRecording && !quickRecordingSession)}`
QuickRecordEnabled(c) ==
    ~(isUploading[c] \/ (isRecording[c] /\ quickRecordingSession[c] = "null"))

\* the runs of handleQuickRecord's start branch that are at `await startRecording()`
StartsInFlight(c) ==
    BagCardinality([m \in {n \in BagToSet(net) : n.kind = "start" /\ n.c = c} |-> net[m]])

\* handleQuickRecord, start branch, up to `await startRecording()`; the code has
\* no limit on the runs in flight, the model keeps them below `pending`
StartBranch(c, pending) ==
    /\ QuickRecordEnabled(c)
    /\ ~isRecording[c]
    /\ StartsInFlight(c) < pending
    /\ error' = [error EXCEPT ![c] = "null"]
    /\ net' = Send(Req("start", c))
    /\ UNCHANGED <<isRecording, quickRecordingSession, isUploading, loading, shown,
                   capture>>
    /\ UNCHANGED exceptRec

HandleQuickRecordStart(c) == StartBranch(c, MaxPending)

\* handleQuickRecord, start branch, after the await: the request succeeded
\* (startRecording returns `session_${Date.now()}`) or threw
StartRecordingFailed(c) ==
    /\ error' = [error EXCEPT ![c] = "start"]
    /\ UNCHANGED <<isRecording, quickRecordingSession>>

StartRecordingSettled(c, st) ==
    /\ BagIn(Resp("start", c, st, {}), net)
    /\ IF st = "ok"
       THEN /\ quickRecordingSession' = [quickRecordingSession EXCEPT ![c] = "session_ts"]
            /\ isRecording' = [isRecording EXCEPT ![c] = TRUE]
            /\ UNCHANGED error
       ELSE StartRecordingFailed(c)
    /\ IF st = "ok" /\ Mounted(c)
       THEN \* the modal is rendered under `!quickRecordingSession`: it closes
            /\ RecorderUnmount(c)
            /\ net' = Orphaned(net (-) SetToBag({Resp("start", c, st, {})}), c)
       ELSE /\ net' = net (-) SetToBag({Resp("start", c, st, {})})
            /\ UNCHANGED recorderVars
    /\ UNCHANGED <<isUploading, loading, shown, capture>>
    /\ UNCHANGED exceptFront

\* handleQuickRecord, stop branch, up to `await stopRecording()`
HandleQuickRecordStop(c) ==
    /\ QuickRecordEnabled(c)
    /\ isRecording[c]
    /\ isUploading' = [isUploading EXCEPT ![c] = TRUE]
    /\ error' = [error EXCEPT ![c] = "null"]
    /\ net' = Send(Req("stop", c))
    /\ UNCHANGED <<isRecording, quickRecordingSession, loading, shown, capture>>
    /\ UNCHANGED exceptRec

\* stopRecording settled (a failure is only logged): loadSessions() starts
StopRecordingSettled(c, st) ==
    /\ BagIn(Resp("stop", c, st, {}), net)
    /\ loading' = [loading EXCEPT ![c] = TRUE]
    /\ error' = [error EXCEPT ![c] = "null"]
    /\ net' = Reply(Resp("stop", c, st, {}), Req("load_stop", c))
    /\ UNCHANGED <<isRecording, quickRecordingSession, isUploading, shown, capture>>
    /\ UNCHANGED exceptRec

\* loadSessions catches its own failure, so `await loadSessions()` in the stop
\* branch of handleQuickRecord returns whatever the answer and the rest of the
\* branch follows
StopBranchEnds_OnSuccess(k, st) == k = "load_stop" /\ st = "ok"
StopBranchEnds(k, st) == k = "load_stop"

\* loadSessions after `await fetchSessions(...)`; for the load of the stop branch
\* the rest of handleQuickRecord follows
LoadSessionsSettled(c, k, st, d) ==
    /\ k \in LoadKinds
    /\ BagIn(Resp(k, c, st, d), net)
    /\ net' = net (-) SetToBag({Resp(k, c, st, d)})
    /\ IF st = "ok"
       THEN shown' = [shown EXCEPT ![c] = d] /\ UNCHANGED error
       ELSE error' = [error EXCEPT ![c] = "load"] /\ UNCHANGED shown
    /\ loading' = [loading EXCEPT ![c] = FALSE]
    /\ IF StopBranchEnds(k, st)
       THEN /\ isRecording' = [isRecording EXCEPT ![c] = FALSE]
            /\ quickRecordingSession' = [quickRecordingSession EXCEPT ![c] = "null"]
            /\ isUploading' = [isUploading EXCEPT ![c] = FALSE]
       ELSE UNCHANGED <<isRecording, quickRecordingSession, isUploading>>
    /\ UNCHANGED capture
    /\ UNCHANGED exceptRec

\* the "Start Recording" button of the empty list (no search, every category)
\* opens the recording modal: `onClick={() => setIsRecording(true)}`
OpenRecordingModal(c) ==
    /\ ~loading[c] /\ error[c] = "null" /\ shown[c] = {}
    /\ ~isRecording[c]
    /\ isRecording' = [isRecording EXCEPT ![c] = TRUE]
    /\ UNCHANGED <<quickRecordingSession, isUploading, error, loading, shown, net,
                   capture>>
    /\ UNCHANGED exceptRec

\* the modal's cancel button: `onClick={() => setIsRecording(false)}`
CancelRecordingModal(c) ==
    /\ Mounted(c)
    /\ isRecording' = [isRecording EXCEPT ![c] = FALSE]
    /\ RecorderUnmount(c)
    /\ net' = Orphaned(net, c)
    /\ UNCHANGED <<quickRecordingSession, isUploading, error, loading, shown, capture>>
    /\ UNCHANGED exceptFront

\* the response interceptor's `error.request` case: no response from the server
RequestLost(c, k) ==
    /\ BagIn(Req(k, c), net)
    /\ net' = Reply(Req(k, c), Resp(k, c, "NetworkError", {}))
    /\ UNCHANGED <<homeVars, capture>>
    /\ UNCHANGED exceptRec

\* startSession is accepted only when no session is Recording
StartAllowed_Always(rec) == TRUE
StartAllowed(rec) == rec = {}

\* POST /record/start
ServeStart(c, k) ==
    /\ k \in StartKinds
    /\ BagIn(Req(k, c), net)
    /\ IF StartAllowed(Recording)
       THEN /\ Len(capture) < MaxRecordings
            /\ capture' = Append(capture, "Recording")
            /\ net' = Reply(Req(k, c), Resp(k, c, "ok", {}))
       ELSE /\ UNCHANGED capture
            /\ net' = Reply(Req(k, c), Resp(k, c, "CaptureError", {}))
    /\ UNCHANGED homeVars
    /\ UNCHANGED exceptRec

\* POST /record/stop: Recording -> Stopping -> Stopped with the Session and its
\* AudioFile written, or the finalization fails and the recorder is Idle again
ServeStop(c, kd, finalized) ==
    /\ kd \in StopKinds
    /\ BagIn(Req(kd, c), net)
    /\ IF Recording = {}
       THEN /\ net' = Reply(Req(kd, c), Resp(kd, c, "CaptureError", {}))
            /\ UNCHANGED <<capture, sessions, audio_files>>
       ELSE LET k == CHOOSE k \in Recording : TRUE
            IN  IF finalized
                THEN /\ capture' = [capture EXCEPT ![k] = "Stopped"]
                     /\ sessions' = sessions \cup {[id |-> k]}
                     /\ audio_files' = audio_files \cup {[id |-> k, session_id |-> k]}
                     /\ net' = Reply(Req(kd, c), Resp(kd, c, "ok", {}))
                ELSE /\ capture' = [capture EXCEPT ![k] = "Idle"]
                     /\ net' = Reply(Req(kd, c), Resp(kd, c, "CaptureError", {}))
                     /\ UNCHANGED <<sessions, audio_files>>
    /\ UNCHANGED homeVars
    /\ UNCHANGED <<transcripts, analysis_results, ideas, tasks, structured_notes, tx,
                   nextAid, nextTid, lastSaved, lastOp>>
    /\ UNCHANGED <<anVars, recorderVars, nextUpload, pagesVars>>

\* GET /sessions
ServeList(c, k) ==
    /\ k \in LoadKinds
    /\ BagIn(Req(k, c), net)
    /\ net' = Reply(Req(k, c), Resp(k, c, "ok", Ids(sessions)))
    /\ UNCHANGED <<homeVars, capture>>
    /\ UNCHANGED exceptRec


NextRec ==
    \/ \E c \in Clients : HandleQuickRecordStart(c)
    \/ \E c \in Clients, st \in Statuses : StartRecordingSettled(c, st)
    \/ \E c \in Clients : HandleQuickRecordStop(c)
    \/ \E c \in Clients, st \in Statuses : StopRecordingSettled(c, st)
    \/ \E c \in Clients, k \in LoadKinds, st \in Statuses,
          d \in SUBSET AllSessionIds : LoadSessionsSettled(c, k, st, d)
    \/ \E c \in Clients : OpenRecordingModal(c)
    \/ \E c \in Clients : CancelRecordingModal(c)
    \/ \E c \in Clients, k \in {"start", "stop"} \cup LoadKinds : RequestLost(c, k)
    \/ \E c \in Clients, k \in StartKinds : ServeStart(c, k)
    \/ \E c \in Clients, k \in StopKinds, finalized \in BOOLEAN : ServeStop(c, k, finalized)
    \/ \E c \in Clients, k \in LoadKinds : ServeList(c, k)

\* the state after construction: no analysis running, an empty database, every
\* Home page mounted
\* the Detail page is not open: the state its hooks are constructed with
InitDetail ==
    /\ routeId = 0
    /\ detailSession = 0
    /\ detailLoading = TRUE
    /\ detailError = "null"

\* no function of utils/ has been called
InitPages == InitDetail /\ utilArg = "none" /\ utilRet = "none"

Init == InitAn /\ InitRepo /\ InitRec /\ InitPages

SpecRec == Init /\ [][NextRec]_vars

-----------------------------------------------------------------------------
(* The Recorder component (components/Recorder): its handlers, run as their   *)
(* code lets them run, against the same backend.                              *)

\* what the status line and the controls make of recordingState and
\* isStoppingRecording: "Recording...", "Processing recording...",
\* "Recording complete", and "Ready to record" for everything else
RecorderState(c) ==
    IF recordingState[c] = "recording"
    THEN (IF isStoppingRecording[c] THEN "Stopping" ELSE "Recording")
    ELSE IF recordingState[c] = "stopped" THEN "Stopped" ELSE "Idle"

\* the start control: `{recordingState === 'idle' && (<button onClick={startRecordingHandler}`,
\* and "Record Again" among the controls of 'stopped'
StartControlRendered(c) == recordingState[c] \in {"idle", "stopped"}

\* the runs of startRecordingHandler that are at `await startRecording()`, those
\* of unmounted Recorders too
RecorderStartsInFlight(c) ==
    BagCardinality([m \in {n \in BagToSet(net) :
                              n.kind \in {"rec_start", "orphan_start"} /\ n.c = c} |-> net[m]])

\* startRecordingHandler up to `await startRecording()`.  The handler tests
\* nothing; it runs wherever the component is not recording: from 'idle' and
\* 'stopped', where its control is rendered, and from the constructed state
StartRecordingHandler(c) ==
    /\ Mounted(c)
    /\ recordingState[c] # "recording"
    /\ RecorderStartsInFlight(c) < MaxPending
    /\ recorderError' = [recorderError EXCEPT ![c] = "null"]
    /\ net' = Send(Req("rec_start", c))
    /\ UNCHANGED <<recordingState, audioBlob, recorderIsUploading, isStoppingRecording,
                   mediaRecorder, recordingSessionRef, intervalRef, micLive, orphanTimers>>
    /\ UNCHANGED <<homeVars, capture>>
    /\ UNCHANGED exceptFront

\* startRecordingHandler after the await: the backend call threw, or it returned
\* and getUserMedia gave the microphone (mic) or threw
RecorderStartSettled(c, st, mic) ==
    /\ BagIn(Resp("rec_start", c, st, {}), net)
    /\ net' = net (-) SetToBag({Resp("rec_start", c, st, {})})
    /\ IF st # "ok"
       THEN /\ ~mic
            /\ recorderError' = [recorderError EXCEPT ![c] = "start"]
            /\ UNCHANGED <<recordingSessionRef, mediaRecorder, micLive, recordingState,
                           intervalRef>>
       ELSE /\ recordingSessionRef' = [recordingSessionRef EXCEPT ![c] = "session_ts"]
            /\ IF mic
               THEN /\ mediaRecorder' = [mediaRecorder EXCEPT ![c] = "recording"]
                    /\ micLive' = [micLive EXCEPT ![c] = TRUE]
                    /\ recordingState' = [recordingState EXCEPT ![c] = "recording"]
                    /\ intervalRef' = [intervalRef EXCEPT ![c] = TRUE]
                    /\ UNCHANGED recorderError
               ELSE /\ recorderError' = [recorderError EXCEPT ![c] = "start"]
                    /\ UNCHANGED <<mediaRecorder, micLive, recordingState, intervalRef>>
    /\ UNCHANGED <<audioBlob, recorderIsUploading, isStoppingRecording, orphanTimers>>
    /\ UNCHANGED <<homeVars, capture>>
    /\ UNCHANGED exceptFront

\* stopRecordingHandler up to `await stopRecording()`; mediaRecorder.stop() makes
\* the blob of the chunks that had data (none: a blob of size 0) and releases the
\* microphone
StopRecordingHandler(c, data) ==
    /\ Mounted(c)
    /\ mediaRecorder[c] # "null" /\ recordingState[c] = "recording"
    /\ ~isStoppingRecording[c]
    /\ recorderError' = [recorderError EXCEPT ![c] = "null"]
    /\ mediaRecorder' = [mediaRecorder EXCEPT ![c] = "inactive"]
    /\ audioBlob' = [audioBlob EXCEPT ![c] = IF data THEN "audio" ELSE "empty"]
    /\ micLive' = [micLive EXCEPT ![c] = FALSE]
    /\ intervalRef' = [intervalRef EXCEPT ![c] = FALSE]
    /\ IF recordingSessionRef[c] # "null"
       THEN /\ isStoppingRecording' = [isStoppingRecording EXCEPT ![c] = TRUE]
            /\ net' = Send(Req("rec_stop", c))
            /\ UNCHANGED recordingState
       ELSE /\ recordingState' = [recordingState EXCEPT ![c] = "stopped"]
            /\ UNCHANGED <<isStoppingRecording, net>>
    /\ UNCHANGED <<recorderIsUploading, recordingSessionRef, orphanTimers>>
    /\ UNCHANGED <<homeVars, capture>>
    /\ UNCHANGED exceptFront

\* stopRecordingHandler after the await: 'stopped' when the backend stopped, and
\* in the catch as well ("Still set to stopped state even if backend fails")
RecorderStopSettled(c, st) ==
    /\ BagIn(Resp("rec_stop", c, st, {}), net)
    /\ net' = net (-) SetToBag({Resp("rec_stop", c, st, {})})
    /\ recordingState' = [recordingState EXCEPT ![c] = "stopped"]
    /\ recorderError' = [recorderError EXCEPT ![c] = IF st = "ok" THEN @ ELSE "stop"]
    /\ isStoppingRecording' = [isStoppingRecording EXCEPT ![c] = FALSE]
    /\ UNCHANGED <<audioBlob, recorderIsUploading, mediaRecorder, recordingSessionRef,
                   intervalRef, micLive, orphanTimers>>
    /\ UNCHANGED <<homeVars, capture>>
    /\ UNCHANGED exceptFront

\* clearRecording, from the trash control of 'stopped'
ClearRecording(c) ==
    /\ Mounted(c)
    /\ recordingState[c] = "stopped"
    /\ recordingState' = [recordingState EXCEPT ![c] = "idle"]
    /\ audioBlob' = [audioBlob EXCEPT ![c] = "null"]
    /\ isStoppingRecording' = [isStoppingRecording EXCEPT ![c] = FALSE]
    /\ recorderError' = [recorderError EXCEPT ![c] = "null"]
    /\ recordingSessionRef' = [recordingSessionRef EXCEPT ![c] = "null"]
    /\ UNCHANGED <<recorderIsUploading, mediaRecorder, intervalRef, micLive, orphanTimers>>
    /\ UNCHANGED <<homeVars, net, capture>>
    /\ UNCHANGED exceptFront

\* the upload request carries the file made of the blob
ReqUpload(k, c, b) == [Req(k, c) EXCEPT !.status = b]

\* uploadRecording up to `await uploadAudioFile(audioFile)`: `if (audioBlob)`
\* passes for every blob, one of size 0 too; the control is disabled while uploading
UploadRecording(c) ==
    /\ Mounted(c)
    /\ recordingState[c] = "stopped" /\ ~recorderIsUploading[c]
    /\ audioBlob[c] # "null"
    /\ recorderIsUploading' = [recorderIsUploading EXCEPT ![c] = TRUE]
    /\ recorderError' = [recorderError EXCEPT ![c] = "null"]
    /\ net' = Send(ReqUpload("rec_upload", c, audioBlob[c]))
    /\ UNCHANGED <<recordingState, audioBlob, isStoppingRecording, mediaRecorder,
                   recordingSessionRef, intervalRef, micLive, orphanTimers>>
    /\ UNCHANGED <<homeVars, capture>>
    /\ UNCHANGED exceptFront

\* Home.handleUpload(session): the session is put in front of the list and the
\* modal is closed, which unmounts the Recorder that is mounted then
HandleUpload(c, d) ==
    /\ shown' = [shown EXCEPT ![c] = @ \cup d]
    /\ isRecording' = [isRecording EXCEPT ![c] = FALSE]
    /\ error' = [error EXCEPT ![c] = "null"]
    /\ isUploading' = [isUploading EXCEPT ![c] = FALSE]
    /\ UNCHANGED <<quickRecordingSession, loading>>

\* uploadRecording after the await: onUpload(session) and clearRecording(), or
\* the catch; `finally` clears the busy flag
RecorderUploadSettled(c, st, d) ==
    /\ BagIn(Resp("rec_upload", c, st, d), net)
    /\ IF st = "ok"
       THEN /\ HandleUpload(c, d)
            /\ RecorderUnmount(c)
            /\ net' = Orphaned(net (-) SetToBag({Resp("rec_upload", c, st, d)}), c)
       ELSE /\ recorderError' = [recorderError EXCEPT ![c] = "upload"]
            /\ recorderIsUploading' = [recorderIsUploading EXCEPT ![c] = FALSE]
            /\ net' = net (-) SetToBag({Resp("rec_upload", c, st, d)})
            /\ UNCHANGED <<recordingState, audioBlob, isStoppingRecording, mediaRecorder,
                           recordingSessionRef, intervalRef, micLive, orphanTimers>>
            /\ UNCHANGED homeVars
    /\ UNCHANGED capture
    /\ UNCHANGED exceptFront

\* a handler of an unmounted Recorder resumes: its setState calls do nothing, the
\* rest of it runs (getUserMedia, mediaRecorder.start() and setInterval;
\* onUpload(session))
OrphanSettled(c, k, st, d, mic) ==
    /\ k \in OrphanKinds
    /\ BagIn(Resp(k, c, st, d), net)
    /\ IF k = "orphan_upload" /\ st = "ok"
       THEN /\ ~mic
            /\ HandleUpload(c, d)
            /\ IF Mounted(c)
               THEN /\ RecorderUnmount(c)
                    /\ net' = Orphaned(net (-) SetToBag({Resp(k, c, st, d)}), c)
               ELSE /\ UNCHANGED recorderVars
                    /\ net' = net (-) SetToBag({Resp(k, c, st, d)})
       ELSE /\ mic => (k = "orphan_start" /\ st = "ok")
            /\ micLive' = [micLive EXCEPT ![c] = @ \/ mic]
            /\ orphanTimers' = [orphanTimers EXCEPT ![c] = IF mic THEN @ + 1 ELSE @]
            /\ net' = net (-) SetToBag({Resp(k, c, st, d)})
            /\ UNCHANGED <<recordingState, audioBlob, recorderIsUploading,
                           isStoppingRecording, recorderError, mediaRecorder,
                           recordingSessionRef, intervalRef>>
            /\ UNCHANGED homeVars
    /\ UNCHANGED capture
    /\ UNCHANGED exceptFront

\* POST /sessions/upload: "Create new VoiceSession with unique ID", save the file,
\* transcribe, analyze, save, return the session; audio of duration 0 is refused
\* and a failed processing leaves nothing
UploadSessionId(n) == MaxRecordings + n

ServeUpload(c, k, b, processed) ==
    /\ k \in UploadKinds
    /\ BagIn(ReqUpload(k, c, b), net)
    /\ IF b = "empty"
       THEN /\ ~processed
            /\ net' = Reply(ReqUpload(k, c, b), Resp(k, c, "CaptureError", {}))
            /\ UNCHANGED <<sessions, audio_files, transcripts, nextUpload>>
       ELSE IF processed
       THEN /\ nextUpload < MaxUploads
            /\ nextUpload' = nextUpload + 1
            /\ LET id == UploadSessionId(nextUpload + 1)
               IN  /\ sessions' = sessions \cup {[id |-> id]}
                   /\ audio_files' = audio_files \cup {[id |-> id, session_id |-> id]}
                   /\ net' = Reply(ReqUpload(k, c, b), Resp(k, c, "ok", {id}))
            /\ UNCHANGED transcripts
       ELSE /\ net' = Reply(ReqUpload(k, c, b), Resp(k, c, "ServerError", {}))
            /\ UNCHANGED <<sessions, audio_files, transcripts, nextUpload>>
    /\ UNCHANGED <<homeVars, capture, recorderVars, pagesVars>>
    /\ UNCHANGED <<analysis_results, ideas, tasks, structured_notes, tx,
                   nextAid, nextTid, lastSaved, lastOp>>
    /\ UNCHANGED anVars

\* uploadAudioFile's `timeout: 60000`: the request is given up before the answer
\* of the backend, which has done its work, arrives
UploadTimeout(c, k, d) ==
    /\ k \in UploadKinds
    /\ BagIn(Resp(k, c, "ok", d), net)
    /\ net' = Reply(Resp(k, c, "ok", d), Resp(k, c, "NetworkError", {}))
    /\ UNCHANGED <<homeVars, capture>>
    /\ UNCHANGED exceptRec

\* the messages in flight: requests at the backend, answers at the clients
Requests == {m \in BagToSet(net) : m.to = "srv"}
Answers == {m \in BagToSet(net) : m.to = "cli"}

\* the clients that use the recording modal
RecorderClients == 1..MaxRecorders

NextRecorder ==
    \/ \E m \in Requests : ServeList(m.c, m.kind)
    \/ \E m \in Answers : LoadSessionsSettled(m.c, m.kind, m.status, m.data)
    \/ \E c \in RecorderClients : OpenRecordingModal(c)
    \/ \E c \in RecorderClients : CancelRecordingModal(c)
    \/ \E c \in RecorderClients : StartRecordingHandler(c)
    \/ \E m \in Answers, mic \in BOOLEAN : RecorderStartSettled(m.c, m.status, mic)
    \/ \E c \in RecorderClients, data \in BOOLEAN : StopRecordingHandler(c, data)
    \/ \E m \in Answers : RecorderStopSettled(m.c, m.status)
    \/ \E c \in RecorderClients : ClearRecording(c)
    \/ \E c \in RecorderClients : UploadRecording(c)
    \/ \E m \in Answers : RecorderUploadSettled(m.c, m.status, m.data)
    \/ \E m \in Answers, mic \in BOOLEAN :
          OrphanSettled(m.c, m.kind, m.status, m.data, mic)
    \/ \E m \in Requests : RequestLost(m.c, m.kind)
    \/ \E m \in Requests : ServeStart(m.c, m.kind)
    \/ \E m \in Requests, finalized \in BOOLEAN : ServeStop(m.c, m.kind, finalized)
    \/ \E m \in Requests, processed \in BOOLEAN :
          ServeUpload(m.c, m.kind, m.status, processed)
    \/ \E m \in Answers : UploadTimeout(m.c, m.kind, m.data)

SpecRecorder == Init /\ [][NextRecorder]_vars

-----------------------------------------------------------------------------
(* The quick record button of one Home page, pressed as often as it is enabled *)

QuickClients == {1}

\* the quick record button is pressed while not recording
QuickRecordPressed(c) == StartBranch(c, MaxPresses)

NextQuick ==
    \/ \E m \in Requests : ServeList(m.c, m.kind)
    \/ \E m \in Answers : LoadSessionsSettled(m.c, m.kind, m.status, m.data)
    \/ \E c \in QuickClients : QuickRecordPressed(c)
    \/ \E m \in Answers : m.kind = "start" /\ StartRecordingSettled(m.c, m.status)
    \/ \E c \in QuickClients : HandleQuickRecordStop(c)
    \/ \E m \in Answers : m.kind = "stop" /\ StopRecordingSettled(m.c, m.status)
    \/ \E m \in Requests : RequestLost(m.c, m.kind)
    \/ \E m \in Requests : ServeStart(m.c, m.kind)
    \/ \E m \in Requests, finalized \in BOOLEAN : ServeStop(m.c, m.kind, finalized)

SpecQuick == Init /\ [][NextQuick]_vars

-----------------------------------------------------------------------------
(* One Home page whole: its quick record button and its recording modal with *)
(* the Recorder in it.                                                        *)

NextHome ==
    \/ \E m \in Requests : ServeList(m.c, m.kind)
    \/ \E m \in Answers : LoadSessionsSettled(m.c, m.kind, m.status, m.data)
    \/ \E c \in QuickClients : HandleQuickRecordStart(c)
    \/ \E m \in Answers : m.kind = "start" /\ StartRecordingSettled(m.c, m.status)
    \/ \E c \in QuickClients : HandleQuickRecordStop(c)
    \/ \E m \in Answers : m.kind = "stop" /\ StopRecordingSettled(m.c, m.status)
    \/ \E c \in QuickClients : OpenRecordingModal(c)
    \/ \E c \in QuickClients : CancelRecordingModal(c)
    \/ \E c \in QuickClients : StartRecordingHandler(c)
    \/ \E m \in Answers, mic \in BOOLEAN : RecorderStartSettled(m.c, m.status, mic)
    \/ \E c \in QuickClients, data \in BOOLEAN : StopRecordingHandler(c, data)
    \/ \E m \in Answers : RecorderStopSettled(m.c, m.status)
    \/ \E c \in QuickClients : ClearRecording(c)
    \/ \E c \in QuickClients : UploadRecording(c)
    \/ \E m \in Answers : RecorderUploadSettled(m.c, m.status, m.data)
    \/ \E m \in Answers, mic \in BOOLEAN :
          OrphanSettled(m.c, m.kind, m.status, m.data, mic)
    \/ \E m \in Requests : ServeStart(m.c, m.kind)
    \/ \E m \in Requests : ServeStop(m.c, m.kind, TRUE)
    \/ \E m \in Requests : ServeUpload(m.c, m.kind, m.status, TRUE)

SpecHome == Init /\ [][NextHome]_vars

-----------------------------------------------------------------------------
(* The Detail page (pages/Detail): the route /detail/:id and loadSession *)

\* GET /sessions/{id}
ReqSession(k, id) == [Req(k, 1) EXCEPT !.data = {id}]

DetailKinds == {"detail", "orphan_detail"}

\* the loads that are at `await fetchSession(sessionId)`
DetailLoadsInFlight ==
    BagCardinality([m \in {n \in BagToSet(net) : n.kind \in DetailKinds} |-> net[m]])

\* loadSession(sessionId) up to `await fetchSession(sessionId)`
LoadSession(id) ==
    /\ detailLoading' = TRUE
    /\ detailError' = "null"
    /\ net' = Send(ReqSession("detail", id))

\* the route becomes /detail/id from another route: Detail is mounted and its
\* effect runs loadSession(id)
OpenDetail(id) ==
    /\ routeId = 0
    /\ DetailLoadsInFlight < MaxLoads
    /\ routeId' = id
    /\ LoadSession(id)
    /\ UNCHANGED <<detailSession, utilArg, utilRet>>
    /\ UNCHANGED <<homeVars, capture, recorderVars>>
    /\ UNCHANGED <<anVars, repoVars, nextUpload>>

\* the :id of the route changes while Detail stays mounted (a move in the
\* history between two /detail/ entries): `useEffect(..., [id])` runs
\* loadSession(id) again, the state is kept
ChangeDetailId(id) ==
    /\ routeId # 0 /\ id # routeId
    /\ DetailLoadsInFlight < MaxLoads
    /\ routeId' = id
    /\ LoadSession(id)
    /\ UNCHANGED <<detailSession, utilArg, utilRet>>
    /\ UNCHANGED <<homeVars, capture, recorderVars>>
    /\ UNCHANGED <<anVars, repoVars, nextUpload>>

\* navigate('/'): Detail is unmounted; the loads it awaits run on without it
LeaveDetail ==
    /\ routeId # 0
    /\ routeId' = 0
    /\ detailSession' = 0
    /\ detailLoading' = TRUE
    /\ detailError' = "null"
    /\ net' = BagOfAll(LAMBDA m : IF m.kind = "detail"
                                  THEN [m EXCEPT !.kind = "orphan_detail"] ELSE m, net)
    /\ UNCHANGED <<utilArg, utilRet>>
    /\ UNCHANGED <<homeVars, capture, recorderVars>>
    /\ UNCHANGED <<anVars, repoVars, nextUpload>>

\* the backend answers GET /sessions/{id}: the session, or not found
ServeSession(m) ==
    /\ m.kind \in DetailKinds /\ m.to = "srv"
    /\ BagIn(m, net)
    /\ net' = Reply(m, Resp(m.kind, m.c,
                            IF m.data \subseteq Ids(sessions) THEN "ok" ELSE "ServerError",
                            m.data))
    /\ UNCHANGED <<homeVars, capture, recorderVars, pagesVars>>
    /\ UNCHANGED <<anVars, repoVars, nextUpload>>

\* loadSession after the await: setSession(sessionData) or the catch; `finally`
\* clears loading.  Nothing compares the answer's id with the current :id
LoadSessionSettled(m) ==
    /\ m.kind = "detail" /\ m.to = "cli"
    /\ BagIn(m, net)
    /\ net' = net (-) SetToBag({m})
    /\ IF m.status = "ok"
       THEN /\ detailSession' = CHOOSE id \in m.data : TRUE
            /\ UNCHANGED detailError
       ELSE /\ detailError' = "load"
            /\ UNCHANGED detailSession
    /\ detailLoading' = FALSE
    /\ UNCHANGED <<routeId, utilArg, utilRet>>
    /\ UNCHANGED <<homeVars, capture, recorderVars>>
    /\ UNCHANGED <<anVars, repoVars, nextUpload>>

\* the load of an unmounted Detail returns: its state updates are lost
OrphanLoadSettled(m) ==
    /\ m.kind = "orphan_detail" /\ m.to = "cli"
    /\ BagIn(m, net)
    /\ net' = net (-) SetToBag({m})
    /\ UNCHANGED <<homeVars, capture, recorderVars, pagesVars>>
    /\ UNCHANGED <<anVars, repoVars, nextUpload>>

NextDetail ==
    \/ \E sid \in SessionIds : CreateSession(sid)
    \/ \E id \in SessionIds : OpenDetail(id)
    \/ \E id \in SessionIds : ChangeDetailId(id)
    \/ LeaveDetail
    \/ \E m \in Requests : ServeSession(m)
    \/ \E m \in Answers : LoadSessionSettled(m)
    \/ \E m \in Answers : OrphanLoadSettled(m)

SpecDetail == Init /\ [][NextDetail]_vars

SpecRepo == Init /\ [][NextRepo]_vars


SpecAn == Init /\ [][NextAn]_vars

-----------------------------------------------------------------------------
(* The pipeline run of one session: its transcript is analyzed, the result is *)
(* saved; the run can be aborted and the session deleted under it.            *)

PipeSession == 1
PipeWriter == "w1"

\* where analyze_text is suspended and its future can be dropped:
\* `self.send_request(&prompt, text).await` and `tokio::time::sleep(...).await`
Abortable == {"call", "sleep"}

\* a dropped future does not run again
AbortedPc_Resumes(pc) == pc
AbortedPc(pc) == "aborted"

DropAnalyze ==
    /\ an_pc' = AbortedPc(an_pc)
    /\ UNCHANGED <<text, prompt, attempts, calls, sleeps, errlog, result>>

\* the session of the run is recorded
PipeCreateSession == CreateSession(PipeSession)

\* the run starts analyze_text on the transcript of its session; one run at a
\* time, after the save of the run before
PipeAnalyze(t) ==
    /\ PipeSession \in Ids(sessions)
    /\ tx[PipeWriter].step = "none"
    /\ AnalyzeStart(t)

\* the pipeline run is aborted while analyze_text is suspended
AbortRun ==
    /\ an_pc \in Abortable
    /\ DropAnalyze
    /\ UNCHANGED exceptAn

\* the session of the run is deleted; a run suspended in analyze_text is aborted
DeleteOwningSession ==
    /\ DeleteRows(PipeSession)
    /\ IF an_pc \in Abortable THEN DropAnalyze ELSE UNCHANGED anVars
    /\ UNCHANGED <<recVars, recorderVars, nextUpload, pagesVars>>

\* analyze_text has returned Ok(result): the run saves it for its session
PipeSave ==
    /\ an_pc = "idle"
    /\ result.kind = "Ok"
    /\ SaveBegin(PipeWriter, PipeSession, result.value)

NextPipe ==
    \/ PipeCreateSession
    \/ \E t \in Texts : PipeAnalyze(t)
    \/ \E r \in ProviderResults : SendRequestOk(r)
    \/ \E e \in Causes : SendRequestErr(e)
    \/ SleepDone
    \/ AnalyzeReturn
    \/ AbortRun
    \/ DeleteOwningSession
    \/ PipeSave
    \/ \E st \in AllStampSeqs : SaveInsertIdeas(PipeWriter, st)
    \/ \E st \in AllStampSeqs : SaveInsertTasks(PipeWriter, st)
    \/ \E st \in AllStampSeqs : SaveInsertNotes(PipeWriter, st)
    \/ SaveCommit(PipeWriter)
    \/ SaveFail(PipeWriter)

SpecPipe == Init /\ [][NextPipe]_vars

-----------------------------------------------------------------------------
(* The language detector on its own: any transcript, then the prompt choice *)

InitLang ==
    /\ InitRepo /\ InitRec /\ InitPages
    /\ text \in LangTexts
    /\ an_pc = "detect"
    /\ prompt = "none"
    /\ attempts = 0
    /\ calls = 0
    /\ sleeps = <<>>
    /\ errlog = <<>>
    /\ result = Pending

\* `let language = self.detect_language(text); let prompt = self.get_prompt_for_language(language);`
DetectLanguage ==
    /\ an_pc = "detect"
    /\ prompt' = get_prompt_for_language(detect_language(text))
    /\ an_pc' = "detected"
    /\ UNCHANGED <<text, attempts, calls, sleeps, errlog, result>>
    /\ UNCHANGED exceptAn

NextLang == DetectLanguage

SpecLang == InitLang /\ [][NextLang]_vars

-----------------------------------------------------------------------------
(* Properties of the capture controller *)

\* the backend answered a start request of client c with status st in this step
StartAnswered(c, st) ==
    /\ CopiesIn(Req("start", c), net') = CopiesIn(Req("start", c), net) - 1
    /\ CopiesIn(Resp("start", c, st, {}), net') = CopiesIn(Resp("start", c, st, {}), net) + 1

\* client c took a failed answer to its start request in this step
StartFailureTaken(c) ==
    \E st \in Statuses \ {"ok"} :
        CopiesIn(Resp("start", c, st, {}), net') = CopiesIn(Resp("start", c, st, {}), net) - 1

\* C1: at most one session is in state Recording at any time; a start served
\* while a session is Recording is answered with CaptureError and leaves every
\* session's capture state unchanged, and the client that takes a failed answer
\* leaves every page's recording state (isRecording, quickRecordingSession) as
\* it was.
C1_AtMostOneRecording ==
    /\ [](Cardinality(Recording) <= 1)
    /\ [][\A c \in Clients :
            /\ (Recording # {} /\ \E st \in {"ok", "CaptureError"} : StartAnswered(c, st))
                  => /\ StartAnswered(c, "CaptureError")
                     /\ capture' = capture
                     /\ UNCHANGED <<isRecording, quickRecordingSession>>
            /\ StartFailureTaken(c)
                  => UNCHANGED <<isRecording, quickRecordingSession, capture>>]_vars

\* C1 witness: a session is Recording, one page shows its recording, and
\* another client's start has been answered with CaptureError.
C1_Witness ==
    \E c, d \in Clients :
        /\ c # d
        /\ Recording # {}
        /\ isRecording[c] /\ quickRecordingSession[c] # "null"
        /\ BagIn(Resp("start", d, "CaptureError", {}), net)

-----------------------------------------------------------------------------
(* Properties of analyze_text *)

\* C2: for a transcript text that is empty or whitespace-only, analyze returns the
\* empty AnalysisResult and the provider is called zero times.
C2_BlankTextNoProviderCall ==
    (an_pc = "done" /\ IsBlank(text)) => (calls = 0 /\ result = Ok(EmptyResult))

\* C3: when every provider call fails, analyze makes exactly 3 attempts, sleeping
\* 2 s before the 2nd and 4 s before the 3rd and not after the 3rd, and then fails;
\* when attempt 2 succeeds there is no 3rd attempt and no further sleep.
C3_RetrySchedule ==
    /\ an_pc # "panic"
    /\ calls <= 3
    /\ Len(sleeps) <= 2
    /\ \A i \in 1..Len(sleeps) : sleeps[i] = 2 ^ i
    /\ an_pc = "call" => Len(sleeps) = calls
    /\ (an_pc = "done" /\ Len(errlog) = calls) =>
          (calls = 3 /\ sleeps = <<2, 4>> /\ result.kind = "Err")
    /\ (an_pc = "done" /\ result.kind = "Ok") => Len(sleeps) = calls - 1
    /\ (an_pc = "done" /\ result.kind = "Ok" /\ Len(errlog) = 1) =>
          (calls = 2 /\ sleeps = <<2>>)

C3_Witness == an_pc = "done" /\ calls = 3 /\ Len(errlog) = 3 /\ sleeps = <<2, 4>>

\* C4: when analyze fails after its 3rd failed attempt, the error it returns carries
\* the cause of the 3rd attempt, and no AnalysisResult is returned or persisted.
C4_LastCauseReturned ==
    (an_pc = "done" /\ result.kind = "Err") =>
        /\ Len(errlog) = 3
        /\ result.cause = errlog[3]
        /\ result.value = NoValue
        /\ analysis_results = {} /\ ideas = {} /\ tasks = {} /\ structured_notes = {}

C4_Witness ==
    /\ an_pc = "done"
    /\ result.kind = "Err"
    /\ errlog[1] # errlog[3]
    /\ errlog[2] # errlog[3]

-----------------------------------------------------------------------------
(* Properties of the repository layer *)

NoRowsOf(aid) ==
    /\ aid \notin Ids(analysis_results)
    /\ ChildrenOf(ideas, {aid}) = {}
    /\ ChildrenOf(tasks, {aid}) = {}
    /\ ChildrenOf(structured_notes, {aid}) = {}

Range(f) == {f[k] : k \in DOMAIN f}

\* the committed rows under analysis row a are exactly the rows of result r
HoldsAllOf(a, r) ==
    /\ a.title = r.title /\ a.summary = r.summary
    /\ Cardinality(ChildrenOf(ideas, {a.id})) = Len(r.ideas)
    /\ {row.content : row \in ChildrenOf(ideas, {a.id})} = Range(r.ideas)
    /\ Cardinality(ChildrenOf(tasks, {a.id})) = Len(r.tasks)
    /\ {[title |-> row.title, priority |-> row.priority] :
            row \in ChildrenOf(tasks, {a.id})} = Range(r.tasks)
    /\ Cardinality(ChildrenOf(structured_notes, {a.id})) = Len(r.structured_notes)
    /\ {[title |-> row.title, tags |-> row.tags, note_type |-> row.note_type] :
            row \in ChildrenOf(structured_notes, {a.id})} = Range(r.structured_notes)

\* C5: saveAnalysis is all-or-nothing: while it runs, and after a failure or crash
\* at any point of it, no row of that write is observable; every AnalysisResult
\* that is observable has all of its Idea, Task and StructuredNote rows.
C5_SaveAnalysisAllOrNothing ==
    /\ \A w \in Writers : tx[w].step # "none" => NoRowsOf(tx[w].aid)
    /\ (lastOp.op = "saveAnalysis" /\ ~lastOp.ok) => NoRowsOf(lastOp.aid)
    /\ \A a \in analysis_results :
          /\ lastSaved[a.session_id] # NoValue
          /\ HoldsAllOf(a, lastSaved[a.session_id])

\* the failure came after the Idea rows were written and before the Task rows
C5_Witness ==
    /\ lastOp.op = "saveAnalysis"
    /\ ~lastOp.ok
    /\ lastOp.step = "ideas"

C7_DeleteRemovesDependents ==
    [][\A sid \in SessionIds :
          (sid \in Ids(sessions) /\ sid \notin Ids(sessions')) =>
              LET gone == Ids(RowsOfSession(analysis_results, sid))
              IN  /\ RowsOfSession(audio_files', sid) = {}
                  /\ RowsOfSession(transcripts', sid) = {}
                  /\ RowsOfSession(analysis_results', sid) = {}
                  /\ ChildrenOf(ideas', gone) = {}
                  /\ ChildrenOf(tasks', gone) = {}
                  /\ ChildrenOf(structured_notes', gone) = {}]_vars

\* a session that had every kind of dependent row has just been deleted
C7_Witness ==
    /\ lastOp.op = "deleteSession"
    /\ lastOp.ok
    /\ lastOp.had
    /\ lastOp.sid \notin Ids(sessions)

\* C8: deleteSession(id) leaves every row of every other session unchanged.
C8_DeleteLeavesOthers ==
    [][\A sid \in SessionIds :
          (sid \in Ids(sessions) /\ sid \notin Ids(sessions')) =>
              \A o \in SessionIds \ {sid} :
                  LET mine == Ids(RowsOfSession(analysis_results, o))
                  IN  /\ (o \in Ids(sessions')) = (o \in Ids(sessions))
                      /\ RowsOfSession(audio_files', o) = RowsOfSession(audio_files, o)
                      /\ RowsOfSession(transcripts', o) = RowsOfSession(transcripts, o)
                      /\ RowsOfSession(analysis_results', o)
                            = RowsOfSession(analysis_results, o)
                      /\ ChildrenOf(ideas', mine) = ChildrenOf(ideas, mine)
                      /\ ChildrenOf(tasks', mine) = ChildrenOf(tasks, mine)
                      /\ ChildrenOf(structured_notes', mine)
                            = ChildrenOf(structured_notes, mine)]_vars

\* a session has just been deleted while another one holds rows of every table
C8_Witness ==
    /\ lastOp.op = "deleteSession"
    /\ lastOp.ok
    /\ \E o \in SessionIds \ {lastOp.sid} :
          LET mine == Ids(RowsOfSession(analysis_results, o))
          IN  /\ o \in Ids(sessions)
              /\ RowsOfSession(audio_files, o) # {}
              /\ RowsOfSession(transcripts, o) # {}
              /\ ChildrenOf(ideas, mine) # {}
              /\ ChildrenOf(tasks, mine) # {}
              /\ ChildrenOf(structured_notes, mine) # {}

\* C9: in every reachable state every Idea, Task and StructuredNote row references
\* an existing AnalysisResult, and every AnalysisResult, Transcript and AudioFile
\* row references an existing Session.
C9_ReferentialIntegrity ==
    /\ \A row \in ideas : row.analysis_id \in Ids(analysis_results)
    /\ \A row \in tasks : row.analysis_id \in Ids(analysis_results)
    /\ \A row \in structured_notes : row.analysis_id \in Ids(analysis_results)
    /\ \A row \in analysis_results : row.session_id \in Ids(sessions)
    /\ \A row \in transcripts : row.session_id \in Ids(sessions)
    /\ \A row \in audio_files : row.session_id \in Ids(sessions)

\* an insert for a session that does not exist has just been refused while rows
\* of other sessions are stored
C9_Witness ==
    /\ ~lastOp.ok
    /\ lastOp.op \in {"saveAnalysis", "saveTranscript"}
    /\ lastOp.sid \notin Ids(sessions)
    /\ ideas # {}
    /\ audio_files # {}

\* C10: after saveAnalysis on a session that already has an AnalysisResult, the
\* rows readable for the session are exactly those of the newer write; concurrent
\* saveAnalysis calls on one session leave the rows of exactly one of them.
C10_NewerWriteSupersedes ==
    \A sid \in SessionIds :
        IF lastSaved[sid] = NoValue
        THEN RowsOfSession(analysis_results, sid) = {}
        ELSE /\ Cardinality(RowsOfSession(analysis_results, sid)) = 1
             /\ \A a \in RowsOfSession(analysis_results, sid) :
                   HoldsAllOf(a, lastSaved[sid])

\* a saveAnalysis has just committed over an earlier AnalysisResult of the session
C10_Witness ==
    /\ lastOp.op = "saveAnalysis"
    /\ lastOp.ok
    /\ lastOp.step = "commit"
    /\ lastOp.had

\* C11: in every reachable state each Session has at most one AudioFile, at most
\* one Transcript and at most one AnalysisResult.
C11_AtMostOneOfEach ==
    \A sid \in SessionIds :
        /\ Cardinality(RowsOfSession(audio_files, sid)) <= 1
        /\ Cardinality(RowsOfSession(transcripts, sid)) <= 1
        /\ Cardinality(RowsOfSession(analysis_results, sid)) <= 1

-----------------------------------------------------------------------------
(* Properties of the language detector *)

CjkIn(t) == Cardinality({i \in 1..Len(t) : t[i] = "cjk"})
NonWhitespaceIn(t) == Cardinality({i \in 1..Len(t) : t[i] # "sp"})

\* C12: the Chinese prompt is selected exactly when the CJK characters are
\* strictly more than 30% of the non-whitespace characters of the transcript, the
\* English prompt otherwise; a fraction of exactly 30% selects the English prompt.
C12_ChinesePromptAboveThirtyPercent ==
    an_pc = "detected" =>
        /\ prompt \in {"chinese_prompt", "english_prompt"}
        /\ prompt = "chinese_prompt" <=> 10 * CjkIn(text) > 3 * NonWhitespaceIn(text)
        /\ 10 * CjkIn(text) = 3 * NonWhitespaceIn(text) => prompt = "english_prompt"

\* C12 witness: a transcript with whitespace in it whose CJK characters are exactly
\* 30% of its non-whitespace characters has been given the English prompt.
C12_Witness ==
    /\ an_pc = "detected"
    /\ NonWhitespaceIn(text) > 0
    /\ NonWhitespaceIn(text) < Len(text)
    /\ 10 * CjkIn(text) = 3 * NonWhitespaceIn(text)
    /\ prompt = "english_prompt"

-----------------------------------------------------------------------------
(* Properties of the Recorder component *)

\* a request to stop the backend recording is on its way
StopRequested == \E m \in BagToSet(net) : m.kind \in StopKinds /\ m.to = "srv"

UploadedSessions == {s \in sessions : s.id > MaxRecordings}

C20_IdleRecorderOffersStart ==
    \A c \in Clients :
        (Mounted(c) /\ RecorderState(c) = "Idle") => StartControlRendered(c)

-----------------------------------------------------------------------------
(* Properties of the pipeline run *)

\* C18: when the session of the run is deleted while analyze_text is in a
\* provider call or in a backoff sleep, the call is abandoned in that step; an
\* abandoned call stays abandoned (a sleep is not waited out), starts no further
\* attempt and no further sleep, and no AnalysisResult is committed for the session.
C18_AbortAbandonsTheAnalysis ==
    [][/\ (/\ an_pc \in Abortable
           /\ PipeSession \in Ids(sessions)
           /\ PipeSession \notin Ids(sessions'))
          => an_pc' = "aborted"
       /\ an_pc = "aborted"
          => /\ an_pc' = "aborted"
             /\ calls' = calls /\ sleeps' = sleeps /\ attempts' = attempts
             /\ RowsOfSession(analysis_results', PipeSession)
                   \subseteq RowsOfSession(analysis_results, PipeSession)
             /\ tx'[PipeWriter].step = "none"]_vars

\* C18 witness: the session was deleted under a run that had made a failed
\* attempt and had attempts left; the run is abandoned, nothing is stored for it.
C18_Witness ==
    /\ an_pc = "aborted"
    /\ calls >= 1 /\ calls < max_attempts
    /\ sleeps # <<>>
    /\ PipeSession \notin Ids(sessions)
    /\ RowsOfSession(analysis_results, PipeSession) = {}

-----------------------------------------------------------------------------
(* Properties of the Home page *)

\* the stop branch of handleQuickRecord is running for client c: it is at
\* `await stopRecording()` or at `await loadSessions()`
StopBranchRunning(c) ==
    \E m \in BagToSet(net) : m.c = c /\ m.kind \in {"stop", "load_stop"}

\* C21: the stop branch of handleQuickRecord ends, whatever the answers to its
\* stop request and to its reload of the sessions, with isRecording false,
\* quickRecordingSession cleared and isUploading false; and isUploading is set
\* only while the branch is running.
C21_StopBranchAlwaysCleansUp ==
    [][\A c \in Clients :
          /\ \A st \in Statuses, d \in SUBSET AllSessionIds :
                LoadSessionsSettled(c, "load_stop", st, d)
                   => /\ ~isRecording'[c]
                      /\ quickRecordingSession'[c] = "null"
                      /\ ~isUploading'[c]
          /\ isUploading'[c] => StopBranchRunning(c)']_vars

\* C21 witness: a client is through the stop branch although its stop request
\* failed (the backend is still Recording) and its reload failed.
C21_Witness ==
    \E c \in Clients :
        /\ error[c] = "load"
        /\ ~isRecording[c] /\ quickRecordingSession[c] = "null" /\ ~isUploading[c]
        /\ capture = <<"Recording">>
        /\ \A o \in Clients : ~isRecording[o]
        /\ net = EmptyBag

\* C22: at most one start request of a client is pending or active at a time:
\* the start requests it has in flight, and the recording it holds, are one
\* together at most.
C22_OneStartAtATime ==
    \A c \in Clients :
        StartsInFlight(c) + (IF quickRecordingSession[c] # "null" THEN 1 ELSE 0) <= 1

\* the duration timers of client c that are running
ActiveTimers(c) == (IF intervalRef[c] THEN 1 ELSE 0) + orphanTimers[c]

-----------------------------------------------------------------------------
(* Properties of the Detail page *)

\* C25: once no load of the Detail page is pending, the session it shows (it
\* shows one when it holds one and no error) is the one of the current route id.
C25_ShownSessionIsTheRoutes ==
    (/\ routeId # 0
     /\ DetailLoadsInFlight = 0
     /\ detailSession # 0 /\ detailError = "null")
        => detailSession = routeId

-----------------------------------------------------------------------------
(* Utility functions of the web client: utils/dataTransform.ts, utils/index.ts
   and the list of the Tasks page.  Each is a pure function; utilArg holds
   the argument of a call and utilRet is <<>> before the call and <<r>> after
   it has returned r. *)

MaxListed == 3          \* sessions in a list given to a utility function

\* the other variables stay as constructed while a utility function is called
InitUtil == InitAn /\ InitRepo /\ InitRec /\ InitDetail

exceptUtil == <<anVars, repoVars, recVars, recorderVars, nextUpload,
                routeId, detailSession, detailLoading, detailError>>

\* sequences over S of length 0..n
SeqsUpTo(S, n) == UNION {[1..k -> S] : k \in 0..n}

SeqRange(q) == {q[i] : i \in 1..Len(q)}

\* note_type as the type declares it, and one value outside the declaration
NoteTypeValues == {"Meeting", "Brainstorm", "Decision", "Action", "Reference", "Other"}

\* the structured_notes of the sessions given: none, one note of each type, and
\* a second note behind it
StructuredNotesInputs ==
    {<<>>} \cup {<<t>> : t \in NoteTypeValues}
           \cup {<<t, "Meeting">> : t \in NoteTypeValues}

\* a session as the tag functions read it: whether it has an analysis and the
\* note_type of each of its structured notes
TagSessions ==
    {[analysis |-> FALSE, structured_notes |-> <<>>]}
        \cup {[analysis |-> TRUE, structured_notes |-> q] : q \in StructuredNotesInputs}

\* getTag of voiceSessionToNote
getTag(s) ==
    IF ~s.analysis \/ Len(s.structured_notes) = 0
    THEN "Ideas"
    ELSE CASE s.structured_notes[1] = "Meeting"   -> "Meeting"
           [] s.structured_notes[1] = "Brainstorm" -> "Ideas"
           [] s.structured_notes[1] = "Decision"  -> "Decision"
           [] s.structured_notes[1] = "Action"    -> "Tasks"
           [] s.structured_notes[1] = "Reference" -> "Reference"
           [] OTHER                               -> "Ideas"

\* the category one session adds in getCategoriesFromSessions, where the
\* 'Action' case adds "Ideas"
CategoryOf_ActionIsIdeas(s) ==
    IF s.analysis /\ Len(s.structured_notes) > 0
    THEN CASE s.structured_notes[1] = "Meeting"   -> "Meeting"
           [] s.structured_notes[1] = "Brainstorm" -> "Ideas"
           [] s.structured_notes[1] = "Decision"  -> "Decision"
           [] s.structured_notes[1] = "Action"    -> "Ideas"
           [] s.structured_notes[1] = "Reference" -> "Reference"
           [] OTHER                               -> "Ideas"
    ELSE "Ideas"

\* the category one session adds in getCategoriesFromSessions
CategoryOf(s) ==
    IF s.analysis /\ Len(s.structured_notes) > 0
    THEN CASE s.structured_notes[1] = "Meeting"   -> "Meeting"
           [] s.structured_notes[1] = "Brainstorm" -> "Ideas"
           [] s.structured_notes[1] = "Decision"  -> "Decision"
           [] s.structured_notes[1] = "Action"    -> "Tasks"
           [] s.structured_notes[1] = "Reference" -> "Reference"
           [] OTHER                               -> "Ideas"
    ELSE "Ideas"

\* Set.add: a Set keeps its values in the order of their first insertion
SetAdd(q, x) == IF x \in SeqRange(q) THEN q ELSE Append(q, x)

\* the Set after sessions.forEach
RECURSIVE CategoriesAdded(_)
CategoriesAdded(ss) ==
    IF Len(ss) = 0 THEN <<>>
    ELSE SetAdd(CategoriesAdded(SubSeq(ss, 1, Len(ss) - 1)), CategoryOf(ss[Len(ss)]))

\* the UTF-16 code units of the strings that are sorted
CodeUnits(str) ==
    CASE str = "All"       -> <<65, 108, 108>>
      [] str = "Decision"  -> <<68, 101, 99, 105, 115, 105, 111, 110>>
      [] str = "Ideas"     -> <<73, 100, 101, 97, 115>>
      [] str = "Meeting"   -> <<77, 101, 101, 116, 105, 110, 103>>
      [] str = "Reference" -> <<82, 101, 102, 101, 114, 101, 110, 99, 101>>
      [] str = "Tasks"     -> <<84, 97, 115, 107, 115>>

\* the order of Array.prototype.sort without a comparator: by code units
RECURSIVE UnitsLess(_, _)
UnitsLess(a, b) ==
    IF Len(b) = 0 THEN FALSE
    ELSE IF Len(a) = 0 THEN TRUE
    ELSE IF a[1] # b[1] THEN a[1] < b[1]
    ELSE UnitsLess(Tail(a), Tail(b))

StringLess(x, y) == UnitsLess(CodeUnits(x), CodeUnits(y))

\* x put into the sorted sequence q, behind the entries not greater than it
RECURSIVE InsertSorted(_, _)
InsertSorted(q, x) ==
    IF Len(q) = 0 THEN <<x>>
    ELSE IF StringLess(x, q[1]) THEN <<x>> \o q
    ELSE <<q[1]>> \o InsertSorted(Tail(q), x)

\* Array.prototype.sort() of an array of strings
RECURSIVE SortStrings(_)
SortStrings(q) ==
    IF Len(q) = 0 THEN <<>>
    ELSE InsertSorted(SortStrings(SubSeq(q, 1, Len(q) - 1)), q[Len(q)])

getCategoriesFromSessions(ss) == SortStrings(CategoriesAdded(ss))

\* matchesCategory of Home.filteredNotes, for a note with the given tag
MatchesCategory(tag, selectedCategory) ==
    selectedCategory = "All" \/ tag = selectedCategory

InitCategories ==
    /\ InitUtil
    /\ utilArg \in SeqsUpTo(TagSessions, MaxListed)
    /\ utilRet = <<>>

\* Home renders: categories = ["All", ...getCategoriesFromSessions(sessions)]
GetCategories ==
    /\ utilRet = <<>>
    /\ utilRet' = <<getCategoriesFromSessions(utilArg)>>
    /\ UNCHANGED <<utilArg, exceptUtil>>

NextCategories == GetCategories

SpecCategories == InitCategories /\ [][NextCategories]_vars

\* the tags of the notes made of the sessions given
NoteTags == {getTag(utilArg[i]) : i \in 1..Len(utilArg)}

\* C26: getCategoriesFromSessions(sessions) holds exactly the tags of the notes
\* of the sessions, each once, in sorted order; so every category it offers
\* matches a note and every note matches a category it offers.
C26_CategoriesAreTheTags ==
    utilRet # <<>> =>
        LET cats == utilRet[1] IN
        /\ SeqRange(cats) = NoteTags
        /\ \A i, j \in 1..Len(cats) : i < j => StringLess(cats[i], cats[j])
        /\ \A i \in 1..Len(cats) :
              \E k \in 1..Len(utilArg) : MatchesCategory(getTag(utilArg[k]), cats[i])
        /\ \A k \in 1..Len(utilArg) :
              \E i \in 1..Len(cats) : MatchesCategory(getTag(utilArg[k]), cats[i])

\* C26 witness: three sessions, two of them with the same tag, added in an
\* order that is not the sorted one, and the categories returned
C26_Witness ==
    /\ utilRet # <<>>
    /\ Len(utilArg) = 3
    /\ getTag(utilArg[1]) = "Tasks"
    /\ getTag(utilArg[2]) = "Ideas"
    /\ getTag(utilArg[3]) = "Tasks"
    /\ utilRet[1] = <<"Ideas", "Tasks">>

-----------------------------------------------------------------------------
(* The Tasks page: pages/Tasks.tsx.  Strings are sequences of characters, so
   that toLowerCase and includes are computed.  utilArg holds the sessions
   loaded, the search query and the priority filter; utilRet holds the list
   the page renders. *)

MaxTaskSessions == 2    \* sessions loaded by the Tasks page
MaxTasksIn == 2         \* tasks in the analysis of one session

Priorities == {"Urgent", "High", "Medium", "Low"}

\* title and description of the tasks given; <<>> is a description that is
\* undefined or empty, both of which `task.description &&` takes as absent
TaskTexts ==
    {[title |-> <<"A", "b">>, description |-> <<>>],
     [title |-> <<"x">>, description |-> <<"C", "a">>]}

\* the tasks given: the one without description with every priority, the one
\* with a description with two of them
TaskInputs ==
    {[title |-> t.title, description |-> t.description, priority |-> p] :
        t \in {u \in TaskTexts : u.description = <<>>}, p \in Priorities}
    \cup
    {[title |-> t.title, description |-> t.description, priority |-> p] :
        t \in {u \in TaskTexts : u.description # <<>>}, p \in {"High", "Low"}}

SessionTitles == {<<"b">>, <<"C">>}

SearchQueries == {<<>>, <<"a", "B">>, <<"c">>}

\* the options of the priority select
PriorityFilters == {"All"} \cup Priorities

\* a session as the Tasks page reads it
TaskSessions ==
    {[title |-> t, analysis |-> FALSE, tasks |-> <<>>] : t \in SessionTitles}
        \cup {[title |-> t, analysis |-> TRUE, tasks |-> q] :
                 t \in SessionTitles, q \in SeqsUpTo(TaskInputs, MaxTasksIn)}

\* String.prototype.toLowerCase on the characters in use
LowerChar(ch) ==
    CASE ch = "A" -> "a"
      [] ch = "B" -> "b"
      [] ch = "C" -> "c"
      [] OTHER    -> ch

toLowerCase(str) == [i \in 1..Len(str) |-> LowerChar(str[i])]

\* String.prototype.includes
includes(str, part) ==
    \E i \in 0..(Len(str) - Len(part)) : SubSeq(str, i + 1, i + Len(part)) = part

\* the entries that session number i adds to allTasks; sessionId is the
\* session's id and taskIndex tells the objects of one session apart
SessionTasks(ss, i) ==
    IF ss[i].analysis
    THEN [j \in 1..Len(ss[i].tasks) |->
             [sessionId |-> i, taskIndex |-> j,
              title |-> ss[i].tasks[j].title,
              description |-> ss[i].tasks[j].description,
              priority |-> ss[i].tasks[j].priority,
              sessionTitle |-> ss[i].title]]
    ELSE <<>>

\* sessions.flatMap over the first n sessions
RECURSIVE FlatMapTasks(_, _)
FlatMapTasks(ss, n) ==
    IF n = 0 THEN <<>> ELSE FlatMapTasks(ss, n - 1) \o SessionTasks(ss, n)

allTasks(ss) == FlatMapTasks(ss, Len(ss))

matchesSearch(task, searchQuery) ==
    \/ includes(toLowerCase(task.title), toLowerCase(searchQuery))
    \/ /\ task.description # <<>>
       /\ includes(toLowerCase(task.description), toLowerCase(searchQuery))
    \/ includes(toLowerCase(task.sessionTitle), toLowerCase(searchQuery))

matchesPriority(task, priorityFilter) ==
    priorityFilter = "All" \/ task.priority = priorityFilter

\* Array.prototype.filter
RECURSIVE FilterTasks(_, _, _)
FilterTasks(q, searchQuery, priorityFilter) ==
    IF Len(q) = 0 THEN <<>>
    ELSE (IF matchesSearch(q[1], searchQuery) /\ matchesPriority(q[1], priorityFilter)
          THEN <<q[1]>> ELSE <<>>)
         \o FilterTasks(Tail(q), searchQuery, priorityFilter)

priorityOrder(p) ==
    CASE p = "Urgent" -> 4
      [] p = "High"   -> 3
      [] p = "Medium" -> 2
      [] p = "Low"    -> 1

\* the comparator given to sort
ComparePriority(a, b) == priorityOrder(b.priority) - priorityOrder(a.priority)

\* x put in front of the entries it compares equal to
RECURSIVE InsertByPriority_BeforeEquals(_, _)
InsertByPriority_BeforeEquals(q, x) ==
    IF Len(q) = 0 THEN <<x>>
    ELSE IF ComparePriority(q[1], x) >= 0 THEN <<x>> \o q
    ELSE <<q[1]>> \o InsertByPriority_BeforeEquals(Tail(q), x)

\* x put into the sorted sequence q behind every entry that the comparator
\* does not place after it: the sort is stable (ECMAScript 2019, 22.1.3.27)
RECURSIVE InsertByPriority(_, _)
InsertByPriority(q, x) ==
    IF Len(q) = 0 THEN <<x>>
    ELSE IF ComparePriority(q[1], x) > 0 THEN <<x>> \o q
    ELSE <<q[1]>> \o InsertByPriority(Tail(q), x)

\* Array.prototype.sort with the comparator
RECURSIVE SortTasks(_)
SortTasks(q) ==
    IF Len(q) = 0 THEN <<>>
    ELSE InsertByPriority(SortTasks(SubSeq(q, 1, Len(q) - 1)), q[Len(q)])

sortedTasks(ss, searchQuery, priorityFilter) ==
    SortTasks(FilterTasks(allTasks(ss), searchQuery, priorityFilter))

\* the Tasks page mounted, its sessions being loaded
InitTasks ==
    /\ InitUtil
    /\ utilArg \in [sessions : SeqsUpTo(TaskSessions, MaxTaskSessions),
                    searchQuery : {<<>>}, priorityFilter : {"All"}]
    /\ utilRet = <<>>

RenderTasks(arg) ==
    <<sortedTasks(arg.sessions, arg.searchQuery, arg.priorityFilter)>>

\* loadSessions has returned: the list is rendered
TasksLoaded ==
    /\ utilRet = <<>>
    /\ utilRet' = RenderTasks(utilArg)
    /\ UNCHANGED <<utilArg, exceptUtil>>

\* the search field's onChange
SetSearchQuery(q) ==
    /\ utilRet # <<>>
    /\ utilArg' = [utilArg EXCEPT !.searchQuery = q]
    /\ utilRet' = RenderTasks(utilArg')
    /\ UNCHANGED exceptUtil

\* the priority select's onChange
SetPriorityFilter(p) ==
    /\ utilRet # <<>>
    /\ utilArg' = [utilArg EXCEPT !.priorityFilter = p]
    /\ utilRet' = RenderTasks(utilArg')
    /\ UNCHANGED exceptUtil

NextTasks ==
    \/ TasksLoaded
    \/ \E q \in SearchQueries : SetSearchQuery(q)
    \/ \E p \in PriorityFilters : SetPriorityFilter(p)

SpecTasks == InitTasks /\ [][NextTasks]_vars

\* the tasks of the sessions loaded that match the query and the filter
MatchingTasks ==
    {e \in SeqRange(allTasks(utilArg.sessions)) :
        /\ matchesSearch(e, utilArg.searchQuery)
        /\ matchesPriority(e, utilArg.priorityFilter)}

\* entry a stands before entry b in the sessions loaded
BeforeInSessions(a, b) ==
    \/ a.sessionId < b.sessionId
    \/ a.sessionId = b.sessionId /\ a.taskIndex < b.taskIndex

\* C27: the list of the Tasks page holds each task that matches the search
\* query and the priority filter once and nothing else, in the order Urgent,
\* High, Medium, Low, tasks of equal priority in the order of their sessions
\* and of their places in the session.
C27_TasksFilteredAndOrdered ==
    utilRet # <<>> =>
        LET shownTasks == utilRet[1] IN
        /\ SeqRange(shownTasks) = MatchingTasks
        /\ Len(shownTasks) = Cardinality(MatchingTasks)
        /\ \A i, j \in 1..Len(shownTasks) :
              i < j =>
                 /\ priorityOrder(shownTasks[i].priority) >= priorityOrder(shownTasks[j].priority)
                 /\ shownTasks[i].priority = shownTasks[j].priority
                       => BeforeInSessions(shownTasks[i], shownTasks[j])

\* C27 witness: four tasks in two sessions, one of them filtered out by the
\* query; the first session's second task and the second session's first have
\* the same priority and are listed in that order, ahead of the first task
C27_Witness ==
    /\ utilRet # <<>>
    /\ Len(allTasks(utilArg.sessions)) = 4
    /\ utilArg.searchQuery # <<>>
    /\ Len(utilRet[1]) = 3
    /\ utilRet[1][1].sessionId = 1 /\ utilRet[1][1].taskIndex = 2
    /\ utilRet[1][2].sessionId = 2 /\ utilRet[1][2].taskIndex = 1
    /\ utilRet[1][1].priority = utilRet[1][2].priority
    /\ utilRet[1][3].sessionId = 1 /\ utilRet[1][3].taskIndex = 1

-----------------------------------------------------------------------------
(* convertToNoteSections of voiceSessionToNote: utils/dataTransform.ts.
   utilArg holds the session, utilRet the notes of the Note made of it. *)

MaxIdeas == 2           \* ideas in the analysis of one session
MaxNotes == 2           \* structured notes in the analysis of one session

IdeaTexts == {<<"i", "1">>, <<"i", "2">>}

\* title and content of the structured notes given; one has the title that
\* the section of the ideas has
NoteInputs ==
    {[title |-> "Plan", content |-> <<"p">>],
     [title |-> "Ideas", content |-> <<"q">>]}

\* a session as convertToNoteSections reads it
SectionSessions ==
    {[analysis |-> FALSE, ideas |-> <<>>, tasks |-> <<>>, structured_notes |-> <<>>]}
        \cup [analysis : {TRUE},
              ideas : SeqsUpTo(IdeaTexts, MaxIdeas),
              tasks : SeqsUpTo(TaskInputs, MaxTasksIn),
              structured_notes : SeqsUpTo(NoteInputs, MaxNotes)]

\* `${task.title}${task.description ? ': ' + task.description : ''} (${task.priority})`
TaskLine(task) ==
    task.title
        \o (IF task.description # <<>> THEN <<":", " ">> \o task.description ELSE <<>>)
        \o <<" ", "(", task.priority, ")">>

IdeasSection(a) ==
    IF Len(a.ideas) > 0 THEN <<[section |-> "Ideas", content |-> a.ideas]>> ELSE <<>>

TasksSection(a) ==
    IF Len(a.tasks) > 0
    THEN <<[section |-> "Tasks",
            content |-> [j \in 1..Len(a.tasks) |-> TaskLine(a.tasks[j])]]>>
    ELSE <<>>

NoteSections(a) ==
    [k \in 1..Len(a.structured_notes) |->
        [section |-> a.structured_notes[k].title,
         content |-> <<a.structured_notes[k].content>>]]

\* the sections pushed, where the section of the tasks is pushed first
SectionsPushed_TasksFirst(a) == TasksSection(a) \o IdeasSection(a) \o NoteSections(a)

\* the array `sections` after the three pushes
SectionsPushed(a) == IdeasSection(a) \o TasksSection(a) \o NoteSections(a)

\* undefined is a value apart from every array, the empty one included
Undefined == [undefined |-> TRUE, sections |-> <<>>]

Defined(secs) == [undefined |-> FALSE, sections |-> secs]

convertToNoteSections(s) ==
    IF ~s.analysis THEN Undefined
    ELSE IF Len(SectionsPushed(s)) > 0 THEN Defined(SectionsPushed(s))
    ELSE Undefined

InitSections ==
    /\ InitUtil
    /\ utilArg \in SectionSessions
    /\ utilRet = <<>>

\* voiceSessionToNote: notes: convertToNoteSections(session.analysis)
ConvertNotes ==
    /\ utilRet = <<>>
    /\ utilRet' = <<convertToNoteSections(utilArg)>>
    /\ UNCHANGED <<utilArg, exceptUtil>>

NextSections == ConvertNotes

SpecSections == InitSections /\ [][NextSections]_vars

\* 1 when the sequence has an entry, else 0
SectionCount(q) == IF Len(q) > 0 THEN 1 ELSE 0

\* C28: notes is undefined exactly when the session has no analysis or its
\* ideas, tasks and structured notes are all empty; otherwise the sections are
\* the "Ideas" section with the ideas in order (if any), the "Tasks" section
\* with one entry for each task in order (if any), then one section for each
\* structured note in order.
C28_SectionsInOrder ==
    utilRet # <<>> =>
        LET notes == utilRet[1]
            s     == utilArg
            nI    == SectionCount(s.ideas)
            nT    == SectionCount(s.tasks)
        IN
        /\ notes.undefined <=>
              (~s.analysis \/ (s.ideas = <<>> /\ s.tasks = <<>> /\ s.structured_notes = <<>>))
        /\ ~notes.undefined =>
              /\ Len(notes.sections) = nI + nT + Len(s.structured_notes)
              /\ nI = 1 =>
                    /\ notes.sections[1].section = "Ideas"
                    /\ notes.sections[1].content = s.ideas
              /\ nT = 1 =>
                    /\ notes.sections[nI + 1].section = "Tasks"
                    /\ Len(notes.sections[nI + 1].content) = Len(s.tasks)
                    /\ \A j \in 1..Len(s.tasks) :
                          notes.sections[nI + 1].content[j] = TaskLine(s.tasks[j])
              /\ \A k \in 1..Len(s.structured_notes) :
                    /\ notes.sections[nI + nT + k].section = s.structured_notes[k].title
                    /\ notes.sections[nI + nT + k].content = <<s.structured_notes[k].content>>

\* C28 witness: a session with two ideas, two tasks and two structured notes,
\* converted to four sections
C28_Witness ==
    /\ utilRet # <<>>
    /\ Len(utilArg.ideas) = 2 /\ utilArg.ideas[1] # utilArg.ideas[2]
    /\ Len(utilArg.tasks) = 2 /\ utilArg.tasks[1] # utilArg.tasks[2]
    /\ Len(utilArg.structured_notes) = 2
    /\ ~utilRet[1].undefined
    /\ Len(utilRet[1].sections) = 4
    /\ utilRet[1].sections[2].section = "Tasks"

-----------------------------------------------------------------------------
(* formatTime: utils/index.ts, and the duration of a Note.  utilArg holds the
   session's duration_ms, utilRet the characters of the duration string. *)

MaxSeconds == 700       \* whole seconds of the durations given

\* duration_ms: every whole second up to the bound, alone and with a rest of
\* 999 ms
DurationInputs == {t * 1000 + r : t \in 0..MaxSeconds, r \in {0, 999}}

DigitChars == <<"0", "1", "2", "3", "4", "5", "6", "7", "8", "9">>

\* Number.prototype.toString of a natural number
RECURSIVE toString(_)
toString(n) ==
    IF n < 10 THEN <<DigitChars[n + 1]>>
    ELSE toString(n \div 10) \o <<DigitChars[(n % 10) + 1]>>

\* String.prototype.padStart with a pad of one character
RECURSIVE padStart(_, _, _)
padStart(str, targetLength, ch) ==
    IF Len(str) >= targetLength THEN str
    ELSE padStart(<<ch>> \o str, targetLength, ch)

formatTime(timeInSeconds) ==
    LET minutes == timeInSeconds \div 60
        seconds == timeInSeconds % 60
    IN  toString(minutes) \o <<":">> \o padStart(toString(seconds), 2, "0")

\* voiceSessionToNote: duration
NoteDuration(duration_ms) == formatTime(duration_ms \div 1000)

InitTime ==
    /\ InitUtil
    /\ utilArg \in DurationInputs
    /\ utilRet = <<>>

FormatDuration ==
    /\ utilRet = <<>>
    /\ utilRet' = <<NoteDuration(utilArg)>>
    /\ UNCHANGED <<utilArg, exceptUtil>>

NextTime == FormatDuration

SpecTime == InitTime /\ [][NextTime]_vars

\* reading a string back: the place of its colon, and the number a field of
\* digits stands for
ColonAt(str) == CHOOSE i \in 1..Len(str) : str[i] = ":"

IsDigits(field) == \A i \in 1..Len(field) : \E d \in 0..9 : DigitChars[d + 1] = field[i]

DigitValue(ch) == CHOOSE d \in 0..9 : DigitChars[d + 1] = ch

RECURSIVE NumberOf(_)
NumberOf(field) ==
    IF Len(field) = 0 THEN 0
    ELSE NumberOf(SubSeq(field, 1, Len(field) - 1)) * 10 + DigitValue(field[Len(field)])

MinutesField(str) == SubSeq(str, 1, ColonAt(str) - 1)

SecondsField(str) == SubSeq(str, ColonAt(str) + 1, Len(str))

\* C29: the duration of a note is MM:SS of t = floor(duration_ms / 1000): a
\* minutes field m and a seconds field s of exactly two digits each, with
\* 0 <= s <= 59 and m * 60 + s = t.
C29_FormatTimeIsMMSS ==
    utilRet # <<>> =>
        LET str == utilRet[1]
            t   == utilArg \div 1000
        IN
        /\ \E i \in 1..Len(str) : str[i] = ":"
        /\ IsDigits(MinutesField(str)) /\ Len(MinutesField(str)) = 2
        /\ IsDigits(SecondsField(str)) /\ Len(SecondsField(str)) = 2
        /\ NumberOf(SecondsField(str)) \in 0..59
        /\ NumberOf(MinutesField(str)) * 60 + NumberOf(SecondsField(str)) = t

=============================================================================
